---- MODULE Spec2Model ----
(***************************************************************************)
(* A TLA+ model of the exact-arithmetic core of rust-number-theory:        *)
(* Hermite normal form (number-theory-linear/src/hnf.rs), polynomial       *)
(* pseudo-division, resultant and discriminant (src/polynomial.rs,         *)
(* src/resultant.rs, src/discriminant.rs), orders (src/order.rs) and the   *)
(* Round 2 driver (src/integral_basis).                                    *)
(*                                                                         *)
(* Vectors and matrices are sequences (1-based); the loop counters k and i *)
(* of the source are kept 0-based, as in the source, and are shifted by    *)
(* one where they index a sequence.                                        *)
(***************************************************************************)
EXTENDS Integers, Sequences, FiniteSets, TLC

VARIABLES input, a, u, k, i, pc, call, ret

vars == <<input, a, u, k, i, pc, call, ret>>

hnfVars == <<input, a, u, k, i, pc>>

callVars == <<call, ret>>

(***************************************************************************)
(* Bounds of the model.                                                    *)
(***************************************************************************)

\* entries of the matrices with at most four cells lie in -MaxEntry..MaxEntry
MaxEntry == 2

\* entries of the six-cell matrices lie in -MaxEntryWide..MaxEntryWide
MaxEntryWide == 1

\* the shapes <<rows, columns>> of the input matrices of hnf_with_u
Shapes == {<<1, 1>>, <<2, 1>>, <<3, 1>>, <<4, 1>>, <<1, 2>>, <<2, 2>>, <<1, 3>>,
           <<3, 2>>, <<2, 3>>}

EntryBound(n, m) == IF n * m <= 4 THEN MaxEntry ELSE MaxEntryWide

Matrices(n, m, e) == [1..n -> [1..m -> (-e)..e]]

(***************************************************************************)
(* BigInt arithmetic.  BigInt's / truncates toward zero.                   *)
(***************************************************************************)

Abs(x) == IF x < 0 THEN -x ELSE x

TruncDiv(x, y) ==
  IF (x >= 0) = (y > 0) THEN Abs(x) \div Abs(y) ELSE -(Abs(x) \div Abs(y))

\* a mutant of floor_div: the truncated quotient, not the floor
floor_div_trunc(x, y) == TruncDiv(x, y)

RECURSIVE floor_div(_, _)
floor_div(x, y) ==
  IF y < 0 THEN floor_div(-x, -y)
  ELSE LET q == TruncDiv(x, y)
       IN IF x < q * y THEN q - 1 ELSE q

(***************************************************************************)
(* Row operations of hnf_with_u.                                           *)
(***************************************************************************)

Identity(n) == [r \in 1..n |-> [c \in 1..n |-> IF r = c THEN 1 ELSE 0]]

\* A_j -= q * A_k
RowSub(r, s, q) == [v \in 1..Len(r) |-> r[v] - s[v] * q]

\* A_k = -A_k
RowNeg(r) == [v \in 1..Len(r) |-> r[v] * (-1)]

Swap(M, x, y) == [M EXCEPT ![x] = M[y], ![y] = M[x]]

\* let x = e: Only({f(x) : x \in {e}}) is f(e), with e evaluated once
Only(S) == CHOOSE x \in S : TRUE

\* a vector, a matrix, a table with every entry evaluated once (a Vec, not a
\* closure)
Strict(v) == v \o <<>>

StrictM(M) == Only({Strict([r \in 1..Len(T) |-> Strict(T[r])]) : T \in {Strict(M)}})

StrictT(T) == Only({Strict([r \in 1..Len(V) |-> StrictM(V[r])]) : V \in {Strict(T)}})

\* Step 2: (0..k).all(|j| a[j][i] == 0)
allzero(A, kk, ii) == \A j \in 0..(kk - 1) : A[j + 1][ii + 1] = 0

\* a mutant of j0Of: the entries are compared as they are, not by absolute value
j0Of_Signed(A, kk, ii) ==
  LET NZ == {j \in 0..kk : A[j + 1][ii + 1] # 0}
  IN CHOOSE j \in NZ :
       \A j2 \in NZ :
         \/ A[j + 1][ii + 1] < A[j2 + 1][ii + 1]
         \/ A[j + 1][ii + 1] = A[j2 + 1][ii + 1] /\ j <= j2

\* Step 3: the row of 0..=k with the least (|a[j][i]|, j) among the non-zero entries
j0Of(A, kk, ii) ==
  LET NZ == {j \in 0..kk : A[j + 1][ii + 1] # 0}
  IN CHOOSE j \in NZ :
       \A j2 \in NZ :
         \/ Abs(A[j + 1][ii + 1]) < Abs(A[j2 + 1][ii + 1])
         \/ Abs(A[j + 1][ii + 1]) = Abs(A[j2 + 1][ii + 1]) /\ j <= j2

\* Steps 3 and 4 on one matrix: M is a or u, A decides the swap and the quotients
Reduce(M, A, kk, ii) ==
  LET j0 == j0Of(A, kk, ii)
      As == Swap(A, j0 + 1, kk + 1)
      Ms == Swap(M, j0 + 1, kk + 1)
      b == As[kk + 1][ii + 1]
  IN [r \in 1..Len(M) |->
        IF r - 1 < kk
        THEN RowSub(Ms[r], Ms[kk + 1], floor_div(As[r][ii + 1], b))
        ELSE Ms[r]]

\* Steps 3 and 4 on a
ReduceA(A, kk, ii) == Reduce(A, A, kk, ii)

\* a mutant of ReduceU: u.swap(j0, k) is left out
ReduceU_NoSwap(U, A, kk, ii) ==
  LET j0 == j0Of(A, kk, ii)
      As == Swap(A, j0 + 1, kk + 1)
      b == As[kk + 1][ii + 1]
  IN [r \in 1..Len(U) |->
        IF r - 1 < kk
        THEN RowSub(U[r], U[kk + 1], floor_div(As[r][ii + 1], b))
        ELSE U[r]]

\* Steps 3 and 4 on u
ReduceU(U, A, kk, ii) == Reduce(U, A, kk, ii)

\* Step 5 on one matrix: the rows below k are reduced modulo the pivot
FinalReduce(M, A, kk, ii) ==
  LET b == A[kk + 1][ii + 1]
  IN [r \in 1..Len(M) |->
        IF r - 1 > kk
        THEN RowSub(M[r], M[kk + 1], floor_div(A[r][ii + 1], b))
        ELSE M[r]]

(***************************************************************************)
(* hnf_with_u as a state machine: one action per step of Algorithm 2.4.4.  *)
(***************************************************************************)

InitHNF ==
  /\ \E s \in Shapes : input \in Matrices(s[1], s[2], EntryBound(s[1], s[2]))
  /\ a = input
  /\ u = Identity(Len(input))
  /\ k = Len(input) - 1
  /\ i = Len(input[1]) - 1
  /\ pc = "step2"
  /\ call = <<>>
  /\ ret = <<>>

\* Step 2, the column is finished: the pivot row is made non-negative
Step2Finished ==
  /\ pc = "step2"
  /\ allzero(a, k, i)
  /\ IF a[k + 1][i + 1] < 0
     THEN /\ a' = [a EXCEPT ![k + 1] = RowNeg(a[k + 1])]
          /\ u' = [u EXCEPT ![k + 1] = RowNeg(u[k + 1])]
     ELSE UNCHANGED <<a, u>>
  /\ pc' = "step5"
  /\ UNCHANGED <<input, k, i, call, ret>>

\* Steps 3 and 4: one pass of the inner loop
Step34Reduce ==
  /\ pc = "step2"
  /\ ~allzero(a, k, i)
  /\ a' = ReduceA(a, k, i)
  /\ u' = ReduceU(u, a, k, i)
  /\ UNCHANGED <<input, k, i, pc, call, ret>>

\* Step 5: final reductions, or the row is kept for the next column
Step5 ==
  /\ pc = "step5"
  /\ IF a[k + 1][i + 1] = 0
     THEN /\ k' = k + 1
          /\ UNCHANGED <<a, u>>
     ELSE /\ a' = FinalReduce(a, a, k, i)
          /\ u' = FinalReduce(u, a, k, i)
          /\ UNCHANGED k
  /\ pc' = "step6"
  /\ UNCHANGED <<input, i, call, ret>>

\* Step 6: finished?
Step6 ==
  /\ pc = "step6"
  /\ IF k = 0 \/ i = 0
     THEN /\ pc' = "done"
          /\ UNCHANGED <<k, i>>
     ELSE /\ k' = k - 1
          /\ i' = i - 1
          /\ pc' = "step2"
  /\ UNCHANGED <<input, a, u, call, ret>>

NextHNF == Step2Finished \/ Step34Reduce \/ Step5 \/ Step6

SpecHNF == InitHNF /\ [][NextHNF]_vars

SpecHNFFair == SpecHNF /\ WF_vars(NextHNF)

\* what hnf_with_u returns: (HNF(a[k..]), u, k)
W == SubSeq(a, k + 1, Len(a))

\* a mutant of Ker: u[..=k]
Ker_OffByOne == SubSeq(u, 1, IF k < Len(u) THEN k + 1 ELSE k)

\* what hnf_with_ker returns as the kernel: u[..k]
Ker == SubSeq(u, 1, k)

(***************************************************************************)
(* Reference notions the claims are stated with.                           *)
(***************************************************************************)

RECURSIVE SumTo(_, _)
SumTo(f, n) == IF n = 0 THEN 0 ELSE f[n] + SumTo(f, n - 1)

\* row vector times matrix
VecMat(v, M) ==
  [c \in 1..Len(M[1]) |-> SumTo([r \in 1..Len(v) |-> v[r] * M[r][c]], Len(v))]

MatMul(X, Y) == [r \in 1..Len(X) |-> VecMat(X[r], Y)]

ZeroVec(m) == [c \in 1..m |-> 0]

\* the matrix without row r and column c
MinorOf(M, r, c) ==
  [x \in 1..(Len(M) - 1) |->
     [y \in 1..(Len(M) - 1) |->
        M[IF x < r THEN x ELSE x + 1][IF y < c THEN y ELSE y + 1]]]

\* the determinant, by expansion along the first row
RECURSIVE Det(_)
Det(M) ==
  IF Len(M) = 0 THEN 1
  ELSE SumTo([c \in 1..Len(M) |->
                IF M[1][c] = 0 THEN 0
                ELSE (IF c % 2 = 1 THEN 1 ELSE -1) * M[1][c] * Det(MinorOf(M, 1, c))],
             Len(M))

\* the rows of K (vectors of length n) are linearly independent: some maximal
\* minor of K is non-zero
RowsIndependent(K, n) ==
  \/ Len(K) = 0
  \/ /\ Len(K) <= n
     /\ \E cs \in [1..Len(K) -> 1..n] :
          /\ \A x \in 1..(Len(K) - 1) : cs[x] < cs[x + 1]
          /\ Det([r \in 1..Len(K) |-> [c \in 1..Len(K) |-> K[r][cs[c]]]]) # 0

\* the column of the last non-zero entry of a row, 0 for a zero row
Pivot(row) ==
  IF \A c \in 1..Len(row) : row[c] = 0 THEN 0
  ELSE CHOOSE c \in 1..Len(row) :
         row[c] # 0 /\ \A c2 \in (c + 1)..Len(row) : row[c2] = 0

Done == pc = "done"

HasNegative(M) == \E r \in 1..Len(M) : \E c \in 1..Len(M[1]) : M[r][c] < 0

(***************************************************************************)
(* C1. For every non-empty integer matrix, the matrix hnf_with_u returns   *)
(* is in lower-triangular echelon form: no zero row, at most m rows, each  *)
(* row's last non-zero entry positive and strictly to the right of that of *)
(* the row above, and every entry below a pivot, in its column, in         *)
(* [0, pivot).                                                             *)
(***************************************************************************)
C1_HnfShape ==
  Done =>
    /\ Len(W) <= Len(input[1])
    /\ \A r \in 1..Len(W) :
         /\ Pivot(W[r]) # 0
         /\ W[r][Pivot(W[r])] > 0
         /\ r > 1 => Pivot(W[r]) > Pivot(W[r - 1])
         /\ \A r2 \in (r + 1)..Len(W) :
              /\ 0 <= W[r2][Pivot(W[r])]
              /\ W[r2][Pivot(W[r])] < W[r][Pivot(W[r])]

\* a matrix with negative entries whose form has two rows and a non-zero entry
\* below the first pivot
C1_Witness ==
  /\ Done
  /\ HasNegative(input)
  /\ Len(W) = 2
  /\ W[2][Pivot(W[1])] > 0

(***************************************************************************)
(* C2. hnf_with_u returns (H, U, k) with U an n x n integer matrix of      *)
(* determinant +1 or -1, the first k rows of U.A zero and the rows         *)
(* k..n-1 of U.A the rows of H.                                            *)
(***************************************************************************)
C2_Transform ==
  Done =>
    /\ Len(u) = Len(input)
    /\ \A r \in 1..Len(u) : Len(u[r]) = Len(input)
    /\ Det(u) \in {1, -1}
    /\ \A r \in 1..k : MatMul(u, input)[r] = ZeroVec(Len(input[1]))
    /\ SubSeq(MatMul(u, input), k + 1, Len(input)) = W

\* a run with a non-trivial kernel, a negated row and a two-row form
C2_Witness ==
  /\ Done
  /\ Len(input) = 3
  /\ k = 1
  /\ Det(u) = -1
  /\ u # Identity(3)

(***************************************************************************)
(* C3. The kernel K and the form H that hnf_with_ker returns satisfy:      *)
(* every row of K annihilates A, the rows of K are linearly independent,   *)
(* and rows(K) + rows(H) = n.                                              *)
(***************************************************************************)
C3_Kernel ==
  Done =>
    /\ \A r \in 1..Len(Ker) : VecMat(Ker[r], input) = ZeroVec(Len(input[1]))
    /\ RowsIndependent(Ker, Len(input))
    /\ Len(Ker) + Len(W) = Len(input)

\* a 3 x 2 matrix of rank 1: the kernel has two rows
C3_Witness ==
  /\ Done
  /\ Len(input) = 3
  /\ Len(input[1]) = 2
  /\ Len(Ker) = 2
  /\ Len(W) = 1

(***************************************************************************)
(* C4. hnf_with_u terminates on every non-empty integer matrix: each pass  *)
(* of the inner reduction loop strictly decreases the largest absolute     *)
(* value among the entries of the current column that are still to be      *)
(* zeroed (rows 0..k-1), every step strictly decreases the well-founded    *)
(* triple (i, position in the loop body, that largest value), so that no   *)
(* run has infinitely many steps; and on an n x 1 matrix with a non-zero   *)
(* entry the result has exactly one row.                                   *)
(***************************************************************************)
MaxAbs(S) == IF S = {} THEN 0 ELSE CHOOSE x \in S : \A y \in S : y <= x

\* the largest |a[j][i]| over the rows j < k
Measure(A, kk, ii) == MaxAbs({Abs(A[j + 1][ii + 1]) : j \in 0..(kk - 1)})

PcRank(p) == CASE p = "step2" -> 3 [] p = "step5" -> 2 [] p = "step6" -> 1 [] OTHER -> 0

LexLess(x, y) ==
  \/ x[1] < y[1]
  \/ x[1] = y[1] /\ x[2] < y[2]
  \/ x[1] = y[1] /\ x[2] = y[2] /\ x[3] < y[3]

Variant(A, kk, ii, p) ==
  <<ii, PcRank(p), IF p = "step2" THEN Measure(A, kk, ii) ELSE 0>>

C4_Terminates ==
  /\ [][Step34Reduce => Measure(a', k, i) < Measure(a, k, i)]_vars
  /\ [][NextHNF => /\ LexLess(Variant(a', k', i', pc'), Variant(a, k, i, pc))
                    /\ i' >= 0]_vars
  /\ [][pc' = "done" /\ Len(input[1]) = 1 /\ input # [r \in 1..Len(input) |-> <<0>>]
         => Len(SubSeq(a', k' + 1, Len(a'))) = 1]_vars

\* the same, as a liveness property under weak fairness of the steps
HnfEventuallyDone == <>Done

\* a column of four entries of both signs and different magnitudes, reduced
C4_Witness ==
  /\ Done
  /\ Len(input) = 4
  /\ Len(input[1]) = 1
  /\ \E r1, r2 \in 1..4 :
       input[r1][1] > 0 /\ input[r2][1] < 0 /\ Abs(input[r1][1]) # Abs(input[r2][1])
  /\ Len(W) = 1

(***************************************************************************)
(* Polynomial<BigInt> (src/polynomial.rs): the coefficient vector dat,     *)
(* constant term first; the zero polynomial is the empty vector.           *)
(***************************************************************************)

\* coefficients of the polynomial pairs with at most five coefficients in all
MaxCoef == 2

\* coefficients of the longer polynomial pairs
MaxCoefWide == 1

\* usize::max_value(), the degree of the zero polynomial; the width is cut to the
\* model checker's integers, the value is only compared and tested for parity
UsizeMax == 2147483647

\* the pairs <<number of coefficients of f, number of coefficients of g>>
PolyShapes == {sh \in (0..4) \X (0..4) : sh[1] + sh[2] <= 7}

CoefBound(x, y) == IF x + y <= 5 THEN MaxCoef ELSE MaxCoefWide

\* the coefficient vectors of length n that satisfy the invariant of Polynomial
PolysOfLen(n, c) == {p \in [1..n -> (-c)..c] : n = 0 \/ p[n] # 0}

RECURSIVE Pow(_, _)
Pow(x, n) == IF n = 0 THEN 1 ELSE x * Pow(x, n - 1)

deg(p) == IF Len(p) = 0 THEN UsizeMax ELSE Len(p) - 1

is_zero(p) == Len(p) = 0

\* ma: one more than the greatest index of a coefficient that is not 0
from_raw_ma(raw) ==
  IF \A x \in 1..Len(raw) : raw[x] = 0 THEN 0
  ELSE CHOOSE x \in 1..Len(raw) : raw[x] # 0 /\ \A y \in (x + 1)..Len(raw) : raw[y] = 0

\* raw.drain(ma..)
from_raw(raw) == Only({SubSeq(r, 1, from_raw_ma(r)) : r \in {Strict(raw)}})

from_mono(v) == from_raw(<<v>>)

coef_at(p, index) == IF index < Len(p) THEN p[index + 1] ELSE 0

\* the naive division loop of pseudo_div_rem_bigint, for i in (0..diff + 1).rev()
RECURSIVE NaiveDivision(_, _, _, _, _)
NaiveDivision(tmp, quo, b, lcb, ii) ==
  IF ii < 0 THEN <<quo, tmp>>
  ELSE LET b_deg == Len(b) - 1
           coef == TruncDiv(tmp[ii + b_deg + 1], lcb)
           tmp2 == [x \in 1..Len(tmp) |->
                      IF ii <= x - 1 /\ x - 1 <= ii + b_deg
                      THEN tmp[x] - coef * b[x - ii]
                      ELSE tmp[x]]
       IN NaiveDivision(tmp2, [quo EXCEPT ![ii + 1] = coef], b, lcb, ii - 1)

\* a mutant of PdivFactor: lcb^diff
PdivFactor_Short(lcb, diff) == Pow(lcb, diff)

\* the factor a is multiplied by: lcb^{diff + 1}
PdivFactor(lcb, diff) == Pow(lcb, diff + 1)

\* pseudo_div_rem_bigint(a, b) = <<quotient, remainder>>
pseudo_div_rem_bigint(pa, pb) ==
  IF is_zero(pa) \/ is_zero(pb) \/ deg(pa) < deg(pb)
  THEN <<from_mono(0), pa>>
  ELSE LET a_deg == deg(pa)
           b_deg == deg(pb)
           lcb == pb[b_deg + 1]
           diff == a_deg - b_deg
           factor == PdivFactor(lcb, diff)
           tmp == [x \in 1..Len(pa) |-> pa[x] * factor]
           quo == Strict([x \in 1..(diff + 1) |-> 0])
           qr == NaiveDivision(tmp, quo, pb, lcb, diff)
       IN <<from_raw(qr[1]), from_raw(qr[2])>>

\* what a call has returned so far: nothing yet, a value, or a panic
Pending == [status |-> "pending"]

Returned(v) == [status |-> "ok", val |-> v]

Panicked == [status |-> "panic"]

\* differential(f): the formal derivative
differential(f) ==
  IF is_zero(f) THEN f
  ELSE from_raw([x \in 1..deg(f) |-> f[x + 1] * x])

\* a mutant of StepSign: the sign is never flipped
StepSign_Never(s, f_deg, g_deg) == s

\* resultant_smart: if f_deg % 2 == 1 && g_deg % 2 == 1 { s = -s }
StepSign(s, f_deg, g_deg) == IF f_deg % 2 = 1 /\ g_deg % 2 = 1 THEN -s ELSE s

\* the loop of resultant_smart; left by "return 0" (zero) or by break
RECURSIVE resultant_loop(_, _, _, _, _)
resultant_loop(f, g, ra, rb, s) ==
  IF is_zero(g) THEN [zero |-> TRUE, f |-> f, g |-> g, b |-> rb, s |-> s]
  ELSE LET f_deg == deg(f)
           g_deg == deg(g)
           s1 == StepSign(s, f_deg, g_deg)
       IN IF g_deg = 0 THEN [zero |-> FALSE, f |-> f, g |-> g, b |-> rb, s |-> s1]
          ELSE IF f_deg < g_deg THEN resultant_loop(g, f, ra, rb, s1)
          ELSE LET delta == f_deg - g_deg
                   h == pseudo_div_rem_bigint(f, g)[2]
                   factor == ra * Pow(rb, delta)
                   g2 == [x \in 1..Len(h) |-> TruncDiv(h[x], factor)]
                   a2 == g[deg(g) + 1]
                   b2 == TruncDiv(Pow(a2, delta) * rb, Pow(rb, delta))
               IN resultant_loop(g, g2, a2, b2, s1)

\* what resultant_smart(f, g) can do.  With f and g both constant the
\* debug assertion f.deg() >= 1 fails; without debug assertions f.deg() - 1
\* wraps and the result is g[0]^0 / 1^(usize::MAX) = 1.
resultant_outcomes(f, g) ==
  IF is_zero(f) THEN {Returned(0)}
  ELSE LET l == resultant_loop(f, g, 1, 1, 1)
       IN IF l.zero THEN {Returned(0)}
          ELSE IF deg(l.f) = 0 THEN {Panicked, Returned(IF l.s = -1 THEN -1 ELSE 1)}
          ELSE LET result == TruncDiv(Pow(l.g[1], deg(l.f)), Pow(l.b, deg(l.f) - 1))
               IN {Returned(IF l.s = -1 THEN -result ELSE result)}

\* resultant(f, g) where it returns
resultant(f, g) == (CHOOSE o \in resultant_outcomes(f, g) : o.status = "ok").val

\* a mutant of DiscSign: negated for m % 4 = 1 and 2
DiscSign_Shifted(res, m) == IF m % 4 = 1 \/ m % 4 = 2 THEN -res ELSE res

\* discriminant: if m % 4 == 2 || m % 4 == 3 { res = -res }
DiscSign(res, m) == IF m % 4 = 2 \/ m % 4 = 3 THEN -res ELSE res

\* what discriminant(f) can do: the assertion, then the outcomes of resultant
discriminant_outcomes(f) ==
  IF is_zero(f) THEN {Panicked}
  ELSE {IF o.status = "ok"
        THEN Returned(TruncDiv(DiscSign(o.val, deg(f)), f[deg(f) + 1]))
        ELSE o : o \in resultant_outcomes(f, differential(f))}

(***************************************************************************)
(* The polynomial functions as calls: Init draws the function and its      *)
(* arguments, one action per function computes what it returns.            *)
(***************************************************************************)

HnfIdle ==
  /\ input = <<>>
  /\ a = <<>>
  /\ u = <<>>
  /\ k = 0
  /\ i = 0
  /\ pc = "idle"

PolyPairs ==
  UNION {PolysOfLen(sh[1], CoefBound(sh[1], sh[2])) \X
         PolysOfLen(sh[2], CoefBound(sh[1], sh[2])) : sh \in PolyShapes}

\* the arguments of discriminant: up to degree 4
DiscPolys == UNION {PolysOfLen(n, CoefBound(n, 1)) : n \in 0..5}

InitPoly ==
  /\ HnfIdle
  /\ \/ \E fg \in PolyPairs :
          call \in {[fn |-> nm, f |-> fg[1], g |-> fg[2]] :
                      nm \in {"pseudo_div_rem_bigint", "resultant"}}
     \/ \E f \in DiscPolys : call = [fn |-> "discriminant", f |-> f, g |-> <<>>]
  /\ ret = Pending

CallPseudoDivRem ==
  /\ call.fn = "pseudo_div_rem_bigint"
  /\ ret = Pending
  /\ ret' = Returned(pseudo_div_rem_bigint(call.f, call.g))
  /\ UNCHANGED <<call, input, a, u, k, i, pc>>

CallResultant ==
  /\ call.fn = "resultant"
  /\ ret = Pending
  /\ ret' \in resultant_outcomes(call.f, call.g)
  /\ UNCHANGED <<call, input, a, u, k, i, pc>>

CallDiscriminant ==
  /\ call.fn = "discriminant"
  /\ ret = Pending
  /\ ret' \in discriminant_outcomes(call.f)
  /\ UNCHANGED <<call, input, a, u, k, i, pc>>

NextPoly == CallPseudoDivRem \/ CallResultant \/ CallDiscriminant

SpecPoly == InitPoly /\ [][NextPoly]_vars

\* the coefficient of x^n in p * q
MulCoef(p, q, n) ==
  SumTo([x \in 1..(n + 1) |-> coef_at(p, x - 1) * coef_at(q, n - (x - 1))], n + 1)

\* c * f = q * g + r, coefficient by coefficient
ScaledEq(c, f, q, g, r) ==
  \A n \in 0..(Len(f) + Len(q) + Len(g) + Len(r)) :
    c * coef_at(f, n) = MulCoef(q, g, n) + coef_at(r, n)

\* deg r < deg g, the zero polynomial lower than every degree
DegLess(r, g) == Len(r) < Len(g)

PdivReturned == call.fn = "pseudo_div_rem_bigint" /\ ret.status = "ok"

(***************************************************************************)
(* C5 (as amended). For all f and all g # 0 in Z[x], pseudo_div_rem_bigint *)
(* (f, g) = (Q, R) has deg R < deg g; when f # 0 and deg f >= deg g,       *)
(* lc(g)^(deg f - deg g + 1) . f = Q.g + R; when f = 0 or deg f < deg g,   *)
(* Q = 0 and R = f.                                                        *)
(***************************************************************************)
C5_PseudoDivision ==
  PdivReturned /\ ~is_zero(call.g) =>
    LET f == call.f
        g == call.g
        Q == ret.val[1]
        R == ret.val[2]
    IN /\ DegLess(R, g)
       /\ ~is_zero(f) /\ Len(f) >= Len(g)
            => ScaledEq(Pow(g[Len(g)], Len(f) - Len(g) + 1), f, Q, g, R)
       /\ is_zero(f) \/ Len(f) < Len(g) => Q = <<>> /\ R = f

\* a division with a leading coefficient other than 1 and -1, a non-zero
\* quotient of degree 1 and a non-zero remainder
C5_Witness ==
  /\ PdivReturned
  /\ Len(call.g) >= 2
  /\ Abs(call.g[Len(call.g)]) >= 2
  /\ Len(ret.val[1]) = 2
  /\ Len(ret.val[2]) >= 1

(***************************************************************************)
(* C5 as claimed: for all f and all g # 0, lc(g)^(deg f - deg g + 1) . f   *)
(* = Q.g + R and deg R < deg g.  For a negative exponent -e the identity   *)
(* is read over Q, as f = lc(g)^e . (Q.g + R); for f = 0 it reads          *)
(* 0 = Q.g + R.                                                            *)
(***************************************************************************)
C5_AsClaimed ==
  PdivReturned /\ ~is_zero(call.g) =>
    LET f == call.f
        g == call.g
        Q == ret.val[1]
        R == ret.val[2]
        e == Len(f) - Len(g) + 1
    IN /\ DegLess(R, g)
       /\ IF is_zero(f) THEN ScaledEq(0, f, Q, g, R)
          ELSE IF e >= 0 THEN ScaledEq(Pow(g[Len(g)], e), f, Q, g, R)
          ELSE \A n \in 0..(Len(f) + Len(Q) + Len(g) + Len(R)) :
                 coef_at(f, n) = Pow(g[Len(g)], -e) * (MulCoef(Q, g, n) + coef_at(R, n))

\* the Sylvester matrix of f (degree n) and g (degree m), both non-zero:
\* m shifted rows of the coefficients of f, then n shifted rows of those of g
Sylvester(f, g) ==
  LET n == Len(f) - 1
      m == Len(g) - 1
  IN [r \in 1..(n + m) |->
        [c \in 1..(n + m) |->
           IF r <= m
           THEN (IF 0 <= c - r /\ c - r <= n THEN f[n - (c - r) + 1] ELSE 0)
           ELSE (IF 0 <= c - (r - m) /\ c - (r - m) <= m
                 THEN g[m - (c - (r - m)) + 1] ELSE 0)]]

ResReturned == call.fn = "resultant" /\ ret.status = "ok"

(***************************************************************************)
(* C6. For non-zero f, g in Z[x], not both constant, resultant(f, g) is    *)
(* the determinant of their Sylvester matrix.                              *)
(***************************************************************************)
C6_Resultant ==
  /\ call.fn = "resultant" /\ ~is_zero(call.f) /\ ~is_zero(call.g)
       /\ Len(call.f) + Len(call.g) > 2
       => ret.status # "panic"
  /\ ResReturned /\ ~is_zero(call.f) /\ ~is_zero(call.g)
       /\ Len(call.f) + Len(call.g) > 2
       => ret.val = Det(Sylvester(call.f, call.g))

\* a resultant other than 0, 1 and -1 of two polynomials of odd degree, the
\* second of the higher degree (one exchange, two changes of sign)
C6_Witness ==
  /\ ResReturned
  /\ Len(call.f) = 2
  /\ Len(call.g) = 4
  /\ Abs(ret.val) >= 2
  /\ ret.val = -Det(Sylvester(call.g, call.f))

DiscReturned == call.fn = "discriminant" /\ ret.status = "ok"

(***************************************************************************)
(* C7. For f in Z[x] of degree m >= 1, discriminant(f) is                   *)
(* s . res(f, f') / lc(f) with s = -1 exactly when m mod 4 is 2 or 3, the  *)
(* division being exact; for a x^2 + b x + c it is b^2 - 4 a c, and for a   *)
(* linear polynomial it is 1.                                              *)
(***************************************************************************)
C7_Discriminant ==
  call.fn = "discriminant" /\ Len(call.f) >= 2 =>
    /\ ret.status # "panic"
    /\ DiscReturned =>
         LET f == call.f
             m == Len(f) - 1
             res == Det(Sylvester(f, differential(f)))
             s == IF m % 4 \in {2, 3} THEN -1 ELSE 1
         IN /\ differential(f) # <<>>
            /\ ret.val * f[m + 1] = s * res
            /\ m = 2 => ret.val = f[2] * f[2] - 4 * f[3] * f[1]
            /\ m = 1 => ret.val = 1

\* a non-zero discriminant of a polynomial of degree 3 whose leading
\* coefficient is not 1 or -1
C7_Witness ==
  /\ DiscReturned
  /\ Len(call.f) = 4
  /\ Abs(call.f[4]) >= 2
  /\ ret.val # 0

(***************************************************************************)
(* BigRational arithmetic: a rational is <<numer, denom>> in lowest terms  *)
(* with denom > 0, as num::rational::Ratio keeps it.                       *)
(***************************************************************************)

RECURSIVE GCD(_, _)
GCD(x, y) == IF y = 0 THEN Abs(x) ELSE GCD(y, x % Abs(y))

LCM(x, y) == (Abs(x) \div GCD(x, y)) * Abs(y)

\* Ratio::new(n, d), d # 0
Rat(n, d) ==
  LET g == GCD(n, d)
  IN IF d > 0 THEN <<n \div g, d \div g>> ELSE <<(-n) \div g, (-d) \div g>>

RInt(n) == <<n, 1>>

RZero == <<0, 1>>

ROne == <<1, 1>>

RAdd(x, y) == Rat(x[1] * y[2] + y[1] * x[2], x[2] * y[2])

\* the sum of f[1..n]
RECURSIVE RSumTo(_, _)
RSumTo(f, n) == IF n = 0 THEN RZero ELSE RAdd(RSumTo(f, n - 1), f[n])

RSub(x, y) == Rat(x[1] * y[2] - y[1] * x[2], x[2] * y[2])

RMul(x, y) == Rat(x[1] * y[1], x[2] * y[2])

\* x / y, y # 0
RDiv(x, y) == Rat(x[1] * y[2], x[2] * y[1])

RIsInteger(x) == x[2] = 1

\* Ratio::to_integer truncates toward zero
RToInteger(x) == TruncDiv(x[1], x[2])

(***************************************************************************)
(* determinant (src/determinant.rs): Gaussian elimination over the         *)
(* rationals.  The rows i and idx are exchanged and the product of the     *)
(* pivots is returned as it is.                                            *)
(***************************************************************************)

\* idx: the first row j >= i with a[j][i] != 0, -1 for None
PivotRow(A, ii) ==
  LET cand == {j \in ii..(Len(A) - 1) : A[j + 1][ii + 1] # RZero}
  IN IF cand = {} THEN -1 ELSE CHOOSE j \in cand : \A j2 \in cand : j <= j2

\* a mutant of Eliminate: the rows below the pivot are left as they are
Eliminate_None(A1, ii) == A1

\* for j in i + 1..n: a[j][k] -= (a[j][i] / a[i][i]) * a[i][k], k in i..n
Eliminate(A1, ii) ==
  [j \in 1..Len(A1) |->
     IF j - 1 > ii
     THEN LET factor == RDiv(A1[j][ii + 1], A1[ii + 1][ii + 1])
          IN [c \in 1..Len(A1) |->
                IF c - 1 >= ii
                THEN RSub(A1[j][c], RMul(factor, A1[ii + 1][c]))
                ELSE A1[j][c]]
     ELSE A1[j]]

RECURSIVE determinant_loop(_, _, _)
determinant_loop(A, ii, result) ==
  IF ii >= Len(A) THEN result
  ELSE LET idx == PivotRow(A, ii)
       IN IF idx = -1 THEN RZero
          ELSE Only({Only({determinant_loop(A2, ii + 1, res)
                             : res \in {RMul(result, A2[ii + 1][ii + 1])}})
                       : A2 \in {StrictM(Eliminate(Swap(A, ii + 1, idx + 1), ii))}})

determinant(A) == Only({determinant_loop(A0, 0, ROne) : A0 \in {StrictM(A)}})

(***************************************************************************)
(* Algebraic (src/algebraic.rs): expr, a polynomial in theta with rational *)
(* coefficients, modulo the integer polynomial min_poly.                   *)
(***************************************************************************)

RECURSIVE from_raw_rational(_)
from_raw_rational(raw) ==
  IF Len(raw) = 0 THEN raw
  ELSE IF raw[Len(raw)] # RZero THEN raw
  ELSE from_raw_rational(SubSeq(raw, 1, Len(raw) - 1))

\* the loop of mul_with_mod, for i in 0..a_deg + 1; cur holds b * x^i mod c
RECURSIVE mul_with_mod_loop(_, _, _, _, _)
mul_with_mod_loop(pa, c, ii, result, cur) ==
  LET n == deg(c)
      a_deg == Len(pa) - 1
      lc == RInt(c[n + 1])
      result1 == [j \in 1..n |-> RAdd(result[j], RMul(pa[ii + 1], cur[j]))]
      \* for j in (0..n).rev() { cur.swap(j, j + 1) }
      shifted == [j \in 1..(n + 1) |-> IF j = 1 THEN cur[n + 1] ELSE cur[j - 1]]
      coef == RDiv(shifted[n + 1], lc)
      cur1 == [j \in 1..(n + 1) |->
                 IF j <= n THEN RSub(shifted[j], RMul(coef, RInt(c[j]))) ELSE RZero]
  IN IF ii > a_deg THEN result
     ELSE IF ii < a_deg
     THEN Only({mul_with_mod_loop(pa, c, ii + 1, r1, c1)
                  : r1 \in {Strict(result1)}, c1 \in {Strict(cur1)}})
     ELSE result1

\* mul_with_mod(a, b, c) = (a * b) mod c, for a and b of degree below deg c
mul_with_mod(pa, pb, c) ==
  IF Len(pa) = 0 \/ Len(pb) = 0 THEN <<>>
  ELSE LET n == deg(c)
           cur == [j \in 1..(n + 1) |-> IF j <= Len(pb) THEN pb[j] ELSE RZero]
       IN Only({from_raw_rational(r)
                  : r \in {Strict(mul_with_mod_loop(pa, c, 0, [j \in 1..n |-> RZero], cur))}})

(***************************************************************************)
(* Order (src/order.rs): basis, n rows of n rationals, the coordinates of  *)
(* the basis elements in 1, theta, ..., theta^(n-1).                       *)
(***************************************************************************)

\* discriminant(f) where it returns
discriminant(f) == (CHOOSE o \in discriminant_outcomes(f) : o.status = "ok").val

\* what Order::discriminant(basis, theta) can do, min_poly that of theta
order_discriminant(basis, min_poly) ==
  LET dg == deg(min_poly)
      det == determinant(basis)
      disc == RInt(discriminant(min_poly))
      lc == coef_at(min_poly, dg)
      value == RDiv(RMul(RMul(disc, det), det), RInt(Pow(lc, 2 * (dg - 1))))
  IN IF RIsInteger(value) THEN Returned(RToInteger(value)) ELSE Panicked

\* non_monic_initial_order(theta): row 0 is 1, row i holds the coefficients
\* c_{n-i+1}, ..., c_n of min_poly in the columns 1..i
non_monic_initial_order(min_poly) ==
  LET dg == deg(min_poly)
  IN [r \in 1..dg |->
        [c \in 1..dg |->
           IF r = 1 THEN (IF c = 1 THEN ROne ELSE RZero)
           ELSE IF 1 <= c - 1 /\ c - 1 <= r - 1
                THEN RInt(coef_at(min_poly, dg - ((r - 1) - (c - 1))))
                ELSE RZero]]

\* what index(a, b) can do: a division by zero and a quotient that is not an
\* integer panic
index(oa, ob) ==
  IF determinant(oa) = RZero THEN Panicked
  ELSE LET quot == RDiv(determinant(ob), determinant(oa))
       IN IF ~RIsInteger(quot) THEN Panicked ELSE Returned(RToInteger(quot))

(***************************************************************************)
(* Orders as calls: Init draws theta and two orders O2 within O1, the      *)
(* actions call Order::discriminant on each of them and index(O1, O2).     *)
(***************************************************************************)

\* numerators of the entries of the bases
Nums == {-2, -1, 0, 1, 2}

\* denominators of the entries of the bases
Dens == {1, 2}

\* the minimal polynomials of theta: 3x^2 + 1 and x^2 + 1
MinPolys == {<<1, 0, 3>>, <<1, 0, 1>>}

OrderEntries == {Rat(n, d) : n \in Nums, d \in Dens}

RECURSIVE LcmOf(_)
LcmOf(S) == IF S = {} THEN 1 ELSE LET x == CHOOSE x \in S : TRUE IN LCM(x, LcmOf(S \ {x}))

\* the least common multiple of the denominators of the rows
DenLcm(rows) == LcmOf({rows[r][c][2] : r \in 1..Len(rows), c \in 1..Len(rows[1])})

\* l times the rational matrix B, an integer matrix when l is a multiple of
\* the denominators
Scaled(B, l) == [r \in 1..Len(B) |-> [c \in 1..Len(B[r]) |-> B[r][c][1] * (l \div B[r][c][2])]]

FullRank(B) == Det(Scaled(B, DenLcm(B))) # 0

\* x is an integer combination of the rows of the full-rank basis B (Cramer)
InLattice(x, B) ==
  LET l == DenLcm(B \o <<x>>)
      M == Scaled(B, l)
      y == Scaled(<<x>>, l)[1]
      d == Det(M)
  IN \A j \in 1..Len(B) : Det([M EXCEPT ![j] = y]) % Abs(d) = 0

\* the coordinates of an element of Q(theta)
Coords(e, n) == [j \in 1..n |-> IF j <= Len(e) THEN e[j] ELSE RZero]

\* the lattice of B is a ring with 1 in Q(theta), theta a root of f
IsOrder(f, B) ==
  /\ FullRank(B)
  /\ InLattice(Coords(<<ROne>>, Len(B)), B)
  /\ \A r1, r2 \in 1..Len(B) :
       InLattice(Coords(mul_with_mod(from_raw_rational(B[r1]),
                                     from_raw_rational(B[r2]), f), Len(B)), B)

Sublattice(B2, B1) == \A r \in 1..Len(B2) : InLattice(B2[r], B1)

\* the product of two rational matrices
RatMatMul(X, Y) ==
  [r \in 1..Len(X) |->
     [c \in 1..Len(Y[1]) |->
        LET l == DenLcm(<<X[r]>> \o Y)
        IN Rat(SumTo([x \in 1..Len(Y) |->
                        Scaled(<<X[r]>>, l)[1][x] * Scaled(<<Y[x]>>, l)[1][c]], Len(Y)),
               l * l)]]

\* the bases of the orders of Q(theta) whose coordinates in the basis
\* non_monic_initial_order(theta) lie in OrderEntries
OrdersOf(f) ==
  {B \in {RatMatMul(X, non_monic_initial_order(f)) :
            X \in [1..deg(f) -> [1..deg(f) -> OrderEntries]]} : IsOrder(f, B)}

\* (O1 : O2) for O2 within O1: the quotient of the absolute determinants
TrueIndex(B1, B2) ==
  LET l == DenLcm(B1 \o B2)
  IN Abs(Det(Scaled(B2, l))) \div Abs(Det(Scaled(B1, l)))

\* the pairs <<min_poly, basis of an order>>
OrderBases == UNION {{<<f, B>> : B \in OrdersOf(f)} : f \in MinPolys}

InitOrder ==
  /\ HnfIdle
  /\ \E x \in OrderBases : \E y \in OrderBases :
       /\ x[1] = y[1]
       /\ Sublattice(y[2], x[2])
       /\ call = [fn |-> "order", min_poly |-> x[1], o1 |-> x[2], o2 |-> y[2]]
  /\ ret = [disc1 |-> Pending, disc2 |-> Pending, index |-> Pending]

CallOrderDiscriminant1 ==
  /\ call.fn = "order"
  /\ ret.disc1 = Pending
  /\ ret' = [ret EXCEPT !.disc1 = order_discriminant(call.o1, call.min_poly)]
  /\ UNCHANGED <<call, input, a, u, k, i, pc>>

CallOrderDiscriminant2 ==
  /\ call.fn = "order"
  /\ ret.disc2 = Pending
  /\ ret' = [ret EXCEPT !.disc2 = order_discriminant(call.o2, call.min_poly)]
  /\ UNCHANGED <<call, input, a, u, k, i, pc>>

CallIndex ==
  /\ call.fn = "order"
  /\ ret.index = Pending
  /\ ret' = [ret EXCEPT !.index = index(call.o1, call.o2)]
  /\ UNCHANGED <<call, input, a, u, k, i, pc>>

NextOrder == CallOrderDiscriminant1 \/ CallOrderDiscriminant2 \/ CallIndex

SpecOrder == InitOrder /\ [][NextOrder]_vars

(***************************************************************************)
(* C8. For orders O2 within O1 of Q(theta), given by full-rank rational    *)
(* bases, Order::discriminant returns a non-zero integer for each, and     *)
(* discriminant(O2) = index(O1, O2)^2 . discriminant(O1).                  *)
(***************************************************************************)
C8_OrderDiscriminant ==
  /\ ret.disc1.status # "panic" /\ ret.disc2.status # "panic" /\ ret.index.status # "panic"
  /\ ret.disc1.status = "ok" => ret.disc1.val # 0
  /\ ret.disc2.status = "ok" => ret.disc2.val # 0
  /\ ret.disc1.status = "ok" /\ ret.disc2.status = "ok" /\ ret.index.status = "ok"
       => ret.disc2.val = ret.index.val * ret.index.val * ret.disc1.val

\* a suborder of index 2 in a larger order with half-integer coordinates,
\* theta not monic
C8_Witness ==
  /\ ret.disc1.status = "ok" /\ ret.disc2.status = "ok" /\ ret.index.status = "ok"
  /\ call.min_poly[3] # 1
  /\ call.o1[2][2][2] = 2
  /\ TrueIndex(call.o1, call.o2) = 2
  /\ ret.disc2.val # ret.disc1.val

(***************************************************************************)
(* C9. For orders O2 within O1 given by any full-rank bases, whatever the  *)
(* sign of each basis determinant, index(O1, O2) returns the positive      *)
(* integer |det(basis(O2)) / det(basis(O1))|.                              *)
(***************************************************************************)
C9_IndexPositive ==
  ret.index # Pending =>
    /\ ret.index.status = "ok"
    /\ ret.index.val > 0
    /\ ret.index.val = TrueIndex(call.o1, call.o2)

(***************************************************************************)
(* hnf_with_u as a function, for its callers: the loop of the state        *)
(* machine above run to its return.                                        *)
(***************************************************************************)

\* Steps 3 and 4 on the state s = [a, u, k, i] of the loop
hnf_step34(s) ==
  [s EXCEPT !.a = StrictM(ReduceA(s.a, s.k, s.i)),
            !.u = StrictM(ReduceU(s.u, s.a, s.k, s.i))]

\* Step 5: the pivot made positive, then the rows below k reduced, or k + 1
\* for a zero pivot
hnf_step5(s) ==
  Only({IF t.a[t.k + 1][t.i + 1] = 0
        THEN [t EXCEPT !.k = t.k + 1]
        ELSE [t EXCEPT !.a = StrictM(FinalReduce(t.a, t.a, t.k, t.i)),
                       !.u = StrictM(FinalReduce(t.u, t.a, t.k, t.i))]
          : t \in {IF s.a[s.k + 1][s.i + 1] < 0
                   THEN [s EXCEPT !.a[s.k + 1] = Strict(RowNeg(@)),
                                  !.u[s.k + 1] = Strict(RowNeg(@))]
                   ELSE s}})

\* the main loop, from Step 2 of column s.i to Step 6
RECURSIVE hnf_loop(_)
hnf_loop(s) ==
  IF ~allzero(s.a, s.k, s.i)
  THEN Only({hnf_loop(t) : t \in {hnf_step34(s)}})
  ELSE Only({IF t.k = 0 \/ t.i = 0 THEN [a |-> t.a, u |-> t.u, k |-> t.k]
             ELSE hnf_loop([t EXCEPT !.k = t.k - 1, !.i = t.i - 1])
               : t \in {hnf_step5(s)}})

\* hnf_with_u(a) = [a, u, k]; an empty a returns at once
hnf_with_u(A) ==
  Only({IF Len(M) = 0 THEN [a |-> <<>>, u |-> <<>>, k |-> 0]
        ELSE Only({hnf_loop(s) : s \in {[a |-> M, u |-> StrictM(Identity(Len(M))),
                                         k |-> Len(M) - 1, i |-> Len(M[1]) - 1]}})
          : M \in {StrictM(A)}})

\* HNF::new(a) = hnf_with_ker(a).0
HNF_new(A) == Only({SubSeq(h.a, h.k + 1, Len(h.a)) : h \in {hnf_with_u(A)}})

\* HNF::kernel(a) = hnf_with_ker(a).1
HNF_kernel(A) == Only({SubSeq(h.u, 1, h.k) : h \in {hnf_with_u(A)}})

(***************************************************************************)
(* gauss_elim (src/gauss_elim.rs): x with x . a = b, by column operations. *)
(***************************************************************************)

\* nxt: the first column i >= col with a[row][i] != 0, n for none
NextColumn(A, row, col) ==
  LET cand == {c \in col..(Len(A) - 1) : A[row + 1][c + 1] # RZero}
  IN IF cand = {} THEN Len(A) ELSE CHOOSE c \in cand : \A c2 \in cand : c <= c2

SwapEntries(v, x, y) == [v EXCEPT ![x] = v[y], ![y] = v[x]]

\* the body of the loop of gauss_elim for one row (col = row)
GaussStep(A, b, row, nxt) ==
  LET col == row
      As == [r \in 1..Len(A) |-> SwapEntries(A[r], col + 1, nxt + 1)]
      bs == SwapEntries(b, col + 1, nxt + 1)
      arc == As[row + 1][col + 1]
      Ad == [r \in 1..Len(A) |-> [As[r] EXCEPT ![col + 1] = RDiv(As[r][col + 1], arc)]]
      bd == [bs EXCEPT ![col + 1] = RDiv(bs[col + 1], arc)]
  IN [a |-> StrictM([r \in 1..Len(A) |->
                       [c \in 1..Len(A) |->
                          IF c - 1 = col THEN Ad[r][c]
                          ELSE RSub(Ad[r][c], RMul(Ad[row + 1][c], Ad[r][col + 1]))]]),
      b |-> Strict([c \in 1..Len(A) |->
                      IF c - 1 = col THEN bd[c]
                      ELSE RSub(bd[c], RMul(Ad[row + 1][c], bd[col + 1]))])]

\* the loop of gauss_elim on g = [a, b]
RECURSIVE gauss_loop(_, _)
gauss_loop(g, row) ==
  IF row >= Len(g.a) THEN Returned(g.b)
  ELSE Only({IF nxt = Len(g.a) THEN Panicked
             ELSE Only({gauss_loop(h, row + 1) : h \in {GaussStep(g.a, g.b, row, nxt)}})
               : nxt \in {NextColumn(g.a, row, row)}})

\* gauss_elim(a, b): Returned(x) for Ok(x), Panicked for Err(()), which the
\* callers turn into a panic by expect
gauss_elim(A, b) == Only({gauss_loop(g, 0) : g \in {[a |-> StrictM(A), b |-> Strict(b)]}})

(***************************************************************************)
(* Order::hnf_reduce and factorize.                                        *)
(***************************************************************************)

\* hnf_reduce: scale to integers by the lcm of the denominators, take the
\* HNF, divide back
hnf_reduce(basis) ==
  LET dg == Len(basis)
  IN Only({Only({StrictM([r \in 1..dg |-> [c \in 1..dg |-> Rat(hnf[r][c], l)]])
                   : hnf \in {HNF_new([r \in 1..dg |-> [c \in 1..dg |->
                                         RToInteger(RMul(basis[r][c], RInt(l)))]])}})
             : l \in {DenLcm(basis)}})

\* while (n % p).is_zero() { e += 1; n /= p }: the final e
RECURSIVE Multiplicity(_, _)
Multiplicity(n, p) == IF n % p = 0 THEN 1 + Multiplicity(n \div p, p) ELSE 0

\* the loop of factorize on s = [n, p, fac]: trial division by p = 2, 3, 4,
\* ... while p * p <= n
RECURSIVE factorize_loop(_)
factorize_loop(s) ==
  IF s.p * s.p > s.n
  THEN IF s.n > 1 THEN Append(s.fac, <<s.n, 1>>) ELSE s.fac
  ELSE Only({factorize_loop(t)
               : t \in {[n |-> s.n \div Pow(s.p, e), p |-> s.p + 1,
                         fac |-> IF e > 0 THEN Append(s.fac, <<s.p, e>>) ELSE s.fac]
                          : e \in {Multiplicity(s.n, s.p)}}})

\* factorize(n) for n >= 1 (asserted): the pairs (p, e)
factorize(n) == Only({factorize_loop(s) : s \in {[n |-> n, p |-> 2, fac |-> <<>>]}})

(***************************************************************************)
(* round2::one_step (src/integral_basis/round2.rs).                        *)
(***************************************************************************)

\* BigInt's % has the sign of the dividend
TruncRem(x, y) == x - y * TruncDiv(x, y)

\* pow: the least power of p that is >= deg
RECURSIVE PowAtLeast(_, _, _)
PowAtLeast(pw, p, dg) == IF pw < dg THEN PowAtLeast(pw * p, p, dg) ELSE pw

\* mul_mod_p(a, b, table, p)
mul_mod_p(x, y, table, p) ==
  LET n == Len(x)
  IN Strict([c \in 1..n |->
       TruncRem(SumTo([r \in 1..n |->
                  SumTo([q \in 1..n |-> x[r] * y[q] * table[r][q][c]], n)], n), p)])

\* the loop of pow_mod_p
RECURSIVE pow_mod_p_loop(_, _, _, _, _)
pow_mod_p_loop(prod, cur, e, table, p) ==
  IF e > 0
  THEN Only({pow_mod_p_loop(prod1, cur1, e1, table, p)
               : prod1 \in {IF e % 2 = 1 THEN mul_mod_p(prod, cur, table, p) ELSE prod},
                 cur1 \in {mul_mod_p(cur, cur, table, p)},
                 e1 \in {e \div 2}})
  ELSE prod

\* pow_mod_p(a, e, table, p) = a^e
pow_mod_p(x, e, table, p) == pow_mod_p_loop(x, x, e - 1, table, p)

\* row.truncate(n) on every row
Truncate(M, n) == Only({StrictM([r \in 1..Len(T) |-> SubSeq(T[r], 1, n)]) : T \in {M}})

\* p times the identity, the rows appended to the generators
ScalarRows(p, dg) == StrictM([r \in 1..dg |-> [c \in 1..dg |-> IF r = c THEN p ELSE 0]])

\* the multiplication table of the order: inv[i][j] is gauss_elim(o.basis, o_i * o_j)
MultInv(min_poly, ob) ==
  LET dg == Len(ob)
  IN StrictM([r \in 1..dg |->
        [q \in 1..dg |->
           Only({gauss_elim(ob, b)
                   : b \in {Strict(Coords(Only({mul_with_mod(x, y, min_poly)
                                                  : x \in {from_raw_rational(ob[r])},
                                                    y \in {from_raw_rational(ob[q])}}), dg))}})]])

\* table2 = inv mod p^2, table = table2 mod p
TableMod(T, m, dg) ==
  StrictT([r \in 1..dg |-> [q \in 1..dg |-> [c \in 1..dg |-> TruncRem(T[r][q][c], m)]]])

\* I_p: the kernel of w -> w^pow modulo p, with the rows of p * identity
I_p(table, p, pow, dg) ==
  Only({Truncate(HNF_new(HNF_kernel(phiw \o ScalarRows(p, dg))), dg)
          : phiw \in {StrictM([r \in 1..dg |->
                        pow_mod_p(Strict([c \in 1..dg |-> IF c = r THEN 1 ELSE 0]),
                                  pow, table, p)])}})

\* the loop "for i in 0..i_p_len" that cuts u_p down to U_p
RECURSIVE u_p_loop(_, _, _, _, _, _)
u_p_loop(i_p, u_p, ii, table2, p, dg) ==
  IF ii >= Len(i_p) THEN u_p
  ELSE Only({Only({Only({u_p_loop(i_p, next_u_p, ii + 1, table2, p, dg)
                           : next_u_p \in {HNF_new(in_o)}})
                     : in_o \in {StrictM([r \in 1..Len(new_u_p) |->
                                   [c \in 1..dg |->
                                      SumTo([j \in 1..Len(u_p) |-> u_p[j][c] * new_u_p[r][j]],
                                            Len(u_p))]])}})
               : new_u_p \in {Truncate(HNF_new(HNF_kernel(
                                StrictM([j \in 1..Len(u_p) |->
                                           mul_mod_p(i_p[ii + 1], u_p[j], table2, p * p)])
                                  \o StrictM([r \in 1..Len(i_p) |->
                                                [c \in 1..dg |-> i_p[r][c] * p]]))),
                              Len(u_p))}})

\* a mutant of howmany_loop: every division by p is counted twice
RECURSIVE howmany_loop_Twice(_, _, _)
howmany_loop_Twice(idx, p, howmany) ==
  IF idx > 1
  THEN IF TruncRem(idx, p) # 0 THEN -1 ELSE howmany_loop_Twice(TruncDiv(idx, p), p, howmany + 2)
  ELSE howmany

\* while index > 1 { assert index % p == 0; index /= p; howmany += 1 }
RECURSIVE howmany_loop(_, _, _)
howmany_loop(idx, p, howmany) ==
  IF idx > 1
  THEN IF TruncRem(idx, p) # 0 THEN -1 ELSE howmany_loop(TruncDiv(idx, p), p, howmany + 1)
  ELSE howmany

\* Order::from_basis(basis)
from_basis(basis) == basis

\* new_o_basis = (1 / p) * u_p * o.basis
NewBasis(new_u, ob, p, dg) ==
  StrictM([r \in 1..dg |-> [c \in 1..dg |->
     LET terms == [j \in 1..dg |-> RMul(Rat(new_u[r][j], p), ob[j][c])]
         l == LcmOf({terms[j][2] : j \in 1..dg})
     IN Rat(SumTo([j \in 1..dg |-> terms[j][1] * (l \div terms[j][2])], dg), l)]])

\* one_step from "let mut phiw" on, the tables given
one_step_from_table(ob, p, dg, table2, table) ==
  LET failed == [status |-> "panic", o |-> ob, howmany |-> 0]
  IN Only({Only({Only({
       IF Len(u_p) > dg \/ Len(new_u) # dg THEN failed
       ELSE Only({Only({
              IF idx.status # "ok" THEN failed
              ELSE Only({IF howmany = -1 THEN failed
                         ELSE [status |-> "ok", o |-> new_o, howmany |-> howmany]
                           : howmany \in {howmany_loop(idx.val, p, 0)}})
                : idx \in {index(new_o, ob)}})
                : new_o \in {from_basis(NewBasis(new_u, ob, p, dg))}})
         : new_u \in {HNF_new(u_p \o ScalarRows(p, dg))}})
         : u_p \in {u_p_loop(i_p, i_p, 0, table2, p, dg)}})
         : i_p \in {I_p(table, p, PowAtLeast(1, p, dg), dg)}})

\* one_step(theta, o, p): [status, o, howmany]; every failed assertion and
\* expect is the status "panic"
one_step(min_poly, ob, p) ==
  LET dg == deg(min_poly)
  IN Only({IF \E r, q \in 1..dg :
                \/ inv[r][q].status # "ok"
                \/ \E c \in 1..dg : ~RIsInteger(inv[r][q].val[c])
           THEN [status |-> "panic", o |-> ob, howmany |-> 0]
           ELSE Only({Only({one_step_from_table(ob, p, dg, table2, table)
                              : table \in {TableMod(table2, p, dg)}})
                        : table2 \in {TableMod([r \in 1..dg |-> [q \in 1..dg |->
                                          [c \in 1..dg |-> RToInteger(inv[r][q].val[c])]]],
                                        p * p, dg)}})
             : inv \in {MultInv(min_poly, ob)}})

(***************************************************************************)
(* find_integral_basis (src/integral_basis/mod.rs) as a state machine:     *)
(* pc is "start", "for" (between two primes), "while" (before a call of    *)
(* one_step), "done" (returned) or "panic"; after the return one_step is   *)
(* called once more, on the result, with a prime p ("probed").             *)
(***************************************************************************)

\* coefficients of the minimal polynomials of theta
MaxTheta == 2

\* further minimal polynomials: x^2 + 2x + 37, x^2 - 2x + 37, 3x^2 + 1,
\* -3x^2 + 5, x^3 - x^2 - 2x - 8, 2x^3 + x^2 + 4, x^3 + 2x^2 + 3x + 4,
\* x^2 + 16, x^2 + 64, x^2 + 27, x^3 - 4
ExtraPolys == {<<37, 2, 1>>, <<37, -2, 1>>, <<1, 0, 3>>, <<5, 0, -3>>,
               <<-8, -2, -1, 1>>, <<4, 0, 1, 2>>, <<4, 3, 2, 1>>,
               <<16, 0, 1>>, <<64, 0, 1>>, <<27, 0, 1>>, <<-4, 0, 0, 1>>}

\* the primes one_step is called with on the result, besides those of disc_fac
SmallPrimes == {2, 3, 5, 7}

\* f(r / s) * s^deg f
EvalAt(f, r, s) ==
  SumTo([x \in 1..Len(f) |-> f[x] * Pow(r, x - 1) * Pow(s, Len(f) - x)], Len(f))

\* f is primitive and has no rational root: irreducible in Z[x] for deg f <= 3
Irreducible(f) ==
  /\ LcmOf({1}) = GCD(f[1], IF Len(f) = 2 THEN f[2] ELSE GCD(f[2], IF Len(f) = 3 THEN f[3] ELSE GCD(f[3], f[4])))
  /\ \/ Len(f) = 2
     \/ \A s \in 1..Abs(f[Len(f)]) : \A r \in (-Abs(f[1]))..Abs(f[1]) : EvalAt(f, r, s) # 0

ThetaPolys ==
  {f \in PolysOfLen(2, MaxTheta) \cup PolysOfLen(3, MaxTheta) \cup ExtraPolys : Irreducible(f)}

NoProbe == [status |-> "none", p |-> 0, o |-> <<>>, howmany |-> 0]

InitRound2 ==
  /\ input = <<>>
  /\ a = <<>>
  /\ u = <<>>
  /\ k = 0
  /\ i = 0
  /\ pc = "start"
  /\ \E f \in ThetaPolys : call = [fn |-> "find_integral_basis", min_poly |-> f]
  /\ ret = [o |-> <<>>, disc |-> 0, disc_fac |-> <<>>, p |-> 0, e |-> 0, probe |-> NoProbe]

\* o = non_monic_initial_order(theta).hnf_reduce(); disc; disc_fac
FibStart ==
  /\ pc = "start"
  /\ \E o0 \in {hnf_reduce(non_monic_initial_order(call.min_poly))} :
       \E d \in {order_discriminant(o0, call.min_poly)} :
          IF d.status # "ok" \/ d.val = 0
          THEN pc' = "panic" /\ UNCHANGED ret
          ELSE /\ pc' = "for"
               /\ ret' = [ret EXCEPT !.o = o0, !.disc = d.val,
                                     !.disc_fac = factorize(Abs(d.val))]
  /\ UNCHANGED <<call, input, a, u, k, i>>

\* for &(ref p, mut e) in &disc_fac
FibNextPrime ==
  /\ pc = "for"
  /\ ret.disc_fac # <<>>
  /\ ret' = [ret EXCEPT !.p = Head(ret.disc_fac)[1], !.e = Head(ret.disc_fac)[2],
                        !.disc_fac = Tail(ret.disc_fac)]
  /\ pc' = "while"
  /\ i' = Head(ret.disc_fac)[2]
  /\ k' = 0
  /\ UNCHANGED <<call, input, a, u>>

\* a mutant of WhileGuard: the last square factor is left in
WhileGuard_Late(e) == e >= 4

\* while e >= 2
WhileGuard(e) == e >= 2

\* one pass of the while loop: one_step, e -= 2 * howmany, o = new_o, break
\* if howmany == 0.  An underflow of the u64 e panics or wraps.  i is the
\* exponent e the loop of the current prime started with and k the number of
\* calls of one_step in that loop.
FibOneStep ==
  /\ pc = "while"
  /\ WhileGuard(ret.e)
  /\ \E r \in {one_step(call.min_poly, ret.o, ret.p)} :
       IF r.status # "ok"
       THEN pc' = "panic" /\ UNCHANGED ret
       ELSE IF ret.e < 2 * r.howmany
       THEN \/ pc' = "panic" /\ UNCHANGED ret
            \/ /\ pc' = "while"
               /\ ret' = [ret EXCEPT !.o = r.o, !.e = UsizeMax - (2 * r.howmany - ret.e) + 1]
       ELSE /\ pc' = IF r.howmany = 0 THEN "for" ELSE "while"
            /\ ret' = [ret EXCEPT !.o = r.o, !.e = ret.e - 2 * r.howmany]
  /\ k' = k + 1
  /\ UNCHANGED <<call, input, a, u, i>>

\* the while loop ends with e < 2
FibWhileExit ==
  /\ pc = "while"
  /\ ~WhileGuard(ret.e)
  /\ pc' = "for"
  /\ UNCHANGED <<ret, call, input, a, u, k, i>>

\* the for loop is over: o is returned
FibReturn ==
  /\ pc = "for"
  /\ ret.disc_fac = <<>>
  /\ pc' = "done"
  /\ UNCHANGED <<ret, call, input, a, u, k, i>>

\* the primes of factorize(|disc|) below 100 (BigInt in the code; the
\* products of one_step with a larger prime leave the integers of the model)
PrimesOf(n) == Only({{fac[x][1] : x \in 1..Len(fac)} : fac \in {factorize(n)}}) \cap 2..100

\* round2::one_step(theta, O, q) on the returned order
ProbeOneStep ==
  /\ pc = "done"
  /\ \E q \in SmallPrimes \cup PrimesOf(Abs(ret.disc)) :
       \E r \in {one_step(call.min_poly, ret.o, q)} :
          ret' = [ret EXCEPT !.probe = [status |-> r.status, p |-> q, o |-> r.o,
                                        howmany |-> r.howmany]]
  /\ pc' = "probed"
  /\ UNCHANGED <<call, input, a, u, k, i>>

NextRound2 ==
  FibStart \/ FibNextPrime \/ FibOneStep \/ FibWhileExit \/ FibReturn \/ ProbeOneStep

SpecRound2 == InitRound2 /\ [][NextRound2]_vars

SameLattice(B1, B2) == Sublattice(B1, B2) /\ Sublattice(B2, B1)

\* d is the discriminant of a quadratic field
Fundamental(d) ==
  LET SquareFree(n) == \A t \in 2..Abs(n) : n % (t * t) # 0
  IN \/ d % 4 = 1 /\ SquareFree(d)
     \/ d % 4 = 0 /\ (d \div 4) % 4 \in {2, 3} /\ SquareFree(d \div 4)

(***************************************************************************)
(* C10. For every theta with irreducible minimal polynomial (monic or      *)
(* not), O = find_integral_basis(theta) is a fixed point of Round 2: for   *)
(* every prime p, one_step(theta, O, p) reports howmany = 0 and returns    *)
(* the same lattice as O; disc(O) keeps only the square factors of the     *)
(* discriminant of the field (-4 for theta^2 + 2 theta + 37).              *)
(***************************************************************************)
C10_Round2FixedPoint ==
  /\ pc # "panic"
  /\ pc = "probed" =>
       /\ ret.probe.status = "ok"
       /\ ret.probe.howmany = 0
       /\ SameLattice(ret.probe.o, ret.o)
  /\ pc = "done" =>
       LET d == order_discriminant(ret.o, call.min_poly)
       IN /\ d.status = "ok"
          /\ Len(call.min_poly) = 3 => Fundamental(d.val)
          /\ call.min_poly = <<37, 2, 1>> => d.val = -4
          /\ call.min_poly = <<4, 3, 2, 1>> => d.val = -200

\* theta not monic, the returned order larger than the initial one, and
\* one_step called on it with a prime whose square divides the initial
\* discriminant
C10_Witness ==
  /\ pc = "probed"
  /\ Abs(call.min_poly[Len(call.min_poly)]) # 1
  /\ TrueIndex(ret.o, hnf_reduce(non_monic_initial_order(call.min_poly))) > 1
  /\ ret.disc % (ret.probe.p * ret.probe.p) = 0
  /\ ret.probe.status = "ok"

(***************************************************************************)
(* The passes of the while loop of find_integral_basis, under SpecRound2.  *)
(***************************************************************************)

\* this step is a call of one_step by the while loop
FibCall == pc = "while" /\ WhileGuard(ret.e)

\* the howmany of the call, read from e -= 2 * howmany
FibHowmany == (ret.e - ret'.e) \div 2

(***************************************************************************)
(* C29. Every call (O', k) = one_step(theta, O, p) of find_integral_basis  *)
(* returns, with O within O', (O' : O) = p^k and disc(O) = p^(2k) *        *)
(* disc(O'); e -= 2 * howmany does not underflow; the loop goes on only    *)
(* after howmany >= 1, and the loop of a prime that starts with the        *)
(* exponent e calls one_step at most e / 2 + 1 times.                      *)
(***************************************************************************)
C29_OneStepIndex ==
  [][FibCall =>
       /\ pc' \in {"while", "for"}
       /\ ret'.e <= ret.e
       /\ (ret.e - ret'.e) % 2 = 0
       /\ Sublattice(ret.o, ret'.o)
       /\ TrueIndex(ret'.o, ret.o) = Pow(ret.p, FibHowmany)
       /\ order_discriminant(ret.o, call.min_poly)
            = Returned(Pow(ret.p, 2 * FibHowmany)
                         * order_discriminant(ret'.o, call.min_poly).val)
       /\ order_discriminant(ret'.o, call.min_poly).status = "ok"
       /\ pc' = "while" <=> FibHowmany >= 1
       /\ k' = k + 1
       /\ k' <= i \div 2 + 1]_vars

\* one_step has enlarged the order twice for the same prime: two calls with
\* howmany >= 1, the exponent e lowered by 4 or more
C29_Witness ==
  /\ pc = "while"
  /\ k >= 2
  /\ ret.e <= i - 4
  /\ TrueIndex(ret.o, hnf_reduce(non_monic_initial_order(call.min_poly))) > 1


(***************************************************************************)
(* find_integral_basis as a function: the loops of the state machine above *)
(* run to the return, for the callers that build a maximal order.          *)
(***************************************************************************)

\* while e >= 2 { one_step; e -= 2 * howmany; o = new_o; break if howmany == 0 }
RECURSIVE fib_while(_, _, _, _)
fib_while(min_poly, o, p, e) ==
  IF WhileGuard(e)
  THEN Only({IF r.howmany = 0 THEN r.o
             ELSE Only({fib_while(min_poly, r.o, p, e1) : e1 \in {e - 2 * r.howmany}})
               : r \in {one_step(min_poly, o, p)}})
  ELSE o

\* for &(ref p, mut e) in &disc_fac
RECURSIVE fib_for(_, _, _)
fib_for(min_poly, o, fac) ==
  IF fac = <<>> THEN o
  ELSE Only({Only({fib_for(min_poly, o1, rest) : o1 \in {fib_while(min_poly, o, pe[1], pe[2])}})
               : pe \in {Head(fac)}, rest \in {Tail(fac)}})

find_integral_basis(min_poly) ==
  Only({fib_for(min_poly, o0, factorize(Abs(order_discriminant(o0, min_poly).val)))
          : o0 \in {hnf_reduce(non_monic_initial_order(min_poly))}})

\* Order::singly_gen(theta): the rows are 1, theta, ..., theta^(deg - 1)
singly_gen(min_poly) ==
  StrictM([r \in 1..deg(min_poly) |-> [c \in 1..deg(min_poly) |-> IF r = c THEN ROne ELSE RZero]])

\* Order::get_mult_table(theta): table[i][j][k], o_i * o_j = sum_k table[i][j][k] o_k
get_mult_table(basis, min_poly) ==
  Only({StrictT([r \in 1..Len(basis) |-> [q \in 1..Len(basis) |->
                   [c \in 1..Len(basis) |-> RToInteger(inv[r][q].val[c])]]])
          : inv \in {MultInv(min_poly, basis)}})

(***************************************************************************)
(* matrix::inv (number-theory-linear/src/matrix.rs): Gauss-Jordan over the *)
(* rationals on s = [a, b], b starting as the identity.                    *)
(***************************************************************************)

\* one column i: exchange of the rows i and idx, row i scaled by 1 / a[i][i],
\* then a[j] -= a[j][i] * a[i] for the other rows, the same on b
InvStep(s, ii, idx) ==
  LET n == Len(s.a)
      a1 == Swap(s.a, ii + 1, idx + 1)
      b1 == Swap(s.b, ii + 1, idx + 1)
      factor == RDiv(ROne, a1[ii + 1][ii + 1])
      arow == [c \in 1..n |-> RMul(a1[ii + 1][c], factor)]
      brow == [c \in 1..n |-> RMul(b1[ii + 1][c], factor)]
  IN [a |-> StrictM([j \in 1..n |->
                       IF j = ii + 1 THEN arow
                       ELSE [c \in 1..n |-> RSub(a1[j][c], RMul(a1[j][ii + 1], arow[c]))]]),
      b |-> StrictM([j \in 1..n |->
                       IF j = ii + 1 THEN brow
                       ELSE [c \in 1..n |-> RSub(b1[j][c], RMul(a1[j][ii + 1], brow[c]))]])]

RECURSIVE inv_loop(_, _)
inv_loop(s, ii) ==
  IF ii >= Len(s.a) THEN Returned(s.b)
  ELSE Only({IF idx = -1 THEN Panicked
             ELSE Only({inv_loop(t, ii + 1) : t \in {InvStep(s, ii, idx)}})
               : idx \in {PivotRow(s.a, ii)}})

\* matrix::inv(a): Returned(b) for Ok(b), Panicked for Err(MatrixNotInvertible),
\* which every caller unwraps
matrix_inv(A) ==
  Only({inv_loop(s, 0)
          : s \in {[a |-> StrictM(A),
                    b |-> StrictM([r \in 1..Len(A) |-> [c \in 1..Len(A) |->
                                     IF r = c THEN ROne ELSE RZero]])]}})

(***************************************************************************)
(* MultTable (src/mult_table.rs).                                          *)
(***************************************************************************)

\* MultTable::mul(a, b)
mt_mul(T, x, y) ==
  LET n == Len(x)
  IN Strict([c \in 1..n |->
       SumTo([r \in 1..n |-> SumTo([q \in 1..n |-> x[r] * y[q] * T[r][q][c]], n)], n)])

\* MultTable::trace(a)
mt_trace(T, x) ==
  LET n == Len(T)
  IN SumTo([r \in 1..n |-> SumTo([q \in 1..n |-> x[r] * T[q][r][q]], n)], n)

\* sum[j][k] = sum_i a[i] * table[i][j][k]: the matrix of the multiplication by a
MulMatrix(T, x) ==
  LET n == Len(T)
  IN StrictM([j \in 1..n |-> [c \in 1..n |->
                RInt(SumTo([r \in 1..n |-> x[r] * T[r][j][c]], n))]])

\* MultTable::norm(a)
mt_norm(T, x) == RToInteger(determinant(MulMatrix(T, x)))

\* a mutant of InvNorm: the sign of the norm is kept
InvNorm_Signed(T, x) == mt_norm(T, x)

\* let norm = self.norm(a).abs()
InvNorm(T, x) == Abs(mt_norm(T, x))

\* MultTable::inv(a) = (ans, norm); the unwrap of a singular matrix panics
mt_inv(T, x) ==
  Only({IF inv.status # "ok" THEN Panicked
        ELSE Only({[status |-> "ok",
                    ans |-> Strict([c \in 1..Len(T) |-> RToInteger(RMul(inv.val[1][c], RInt(norm)))]),
                    norm |-> norm]
                     : norm \in {InvNorm(T, x)}})
          : inv \in {matrix_inv(MulMatrix(T, x))}})

(***************************************************************************)
(* MultTable and Ideal as calls: Init draws the function and its           *)
(* arguments, the action calls it.                                         *)
(***************************************************************************)

\* coordinates of the elements of an order of degree 2
MaxElem == 2

\* coordinates of the elements of an order of degree 3
MaxElemWide == 1

\* minimal polynomials of theta: x^2 + 1, x^2 + 5, x^2 - 5, x^2 + 3, x^3 - 2
FieldPolys == {<<1, 0, 1>>, <<5, 0, 1>>, <<-5, 0, 1>>, <<3, 0, 1>>, <<-2, 0, 0, 1>>}

\* the maximal orders, as find_integral_basis returns them, with their tables
MaxOrders ==
  {Only({[min_poly |-> f, basis |-> o, table |-> get_mult_table(o, f)]
           : o \in {find_integral_basis(f)}}) : f \in FieldPolys}

\* the orders Z[theta], as singly_gen returns them, with their tables
SinglyGenOrders ==
  {Only({[min_poly |-> f, basis |-> o, table |-> get_mult_table(o, f)]
           : o \in {singly_gen(f)}}) : f \in FieldPolys}

\* the coefficient vectors of the elements of an order of degree n
Elems(n) ==
  LET e == IF n <= 2 THEN MaxElem ELSE MaxElemWide
  IN {Strict(x) : x \in [1..n -> (-e)..e]}

(***************************************************************************)
(* Ideal (src/ideal.rs): an ideal is its HNF, a list of rows over the      *)
(* basis of the order; the table is passed along.                          *)
(***************************************************************************)

\* prod *= self.0[i][i] for i in 0..n
RECURSIVE DiagProd(_, _)
DiagProd(h, n) == IF n = 0 THEN 1 ELSE DiagProd(h, n - 1) * h[n][n]

\* HNF::determinant
hnf_determinant(h) ==
  IF Len(h) # (IF Len(h) = 0 THEN 0 ELSE Len(h[1])) THEN 0
  ELSE DiagProd(h, Len(h))

\* Ideal::norm
ideal_norm(h) == hnf_determinant(h)

\* Ideal::principal(elem): the rows elem * w_i
ideal_principal(T, elem) ==
  HNF_new(StrictM([r \in 1..Len(T) |->
                     mt_mul(T, elem, [c \in 1..Len(T) |-> IF c = r THEN 1 ELSE 0])]))

\* Ideal::cap_z
cap_z(h) == h[1][1]

\* a mutant of ideal_add: the right-hand side is dropped
ideal_add_Lhs(h1, h2) == h1

\* a mutant of ideal_mul: only the first row of the right-hand side is used
ideal_mul_FirstRow(T, h1, h2) ==
  HNF_new(StrictM([x \in 1..Len(h1) |-> mt_mul(T, h1[x], h2[1])]))

\* &Ideal + &Ideal
ideal_add(h1, h2) == HNF_new(h1 \o h2)

\* &Ideal * &Ideal: the products v * w, v in the rows of self, w in those of rhs
ideal_mul(T, h1, h2) ==
  HNF_new(StrictM([x \in 1..(Len(h1) * Len(h2)) |->
                     mt_mul(T, h1[((x - 1) \div Len(h2)) + 1], h2[((x - 1) % Len(h2)) + 1])]))

\* Ideal::contains(num)
contains(T, h, num) == ideal_add(h, ideal_principal(T, num)) = h

\* triangular::mul_inv_from_right_exact(a, b) = a * b^(-1); a singular b is
\* Err, unwrapped by the caller, and a sum that is not an integer fails the
\* assertion
mul_inv_from_right_exact(A, B) ==
  LET n == Len(A)
  IN IF Len(B) < n THEN Panicked
     ELSE Only({IF invb.status # "ok" THEN Panicked
                ELSE Only({IF \E r, c \in 1..n : ~RIsInteger(sums[r][c]) THEN Panicked
                           ELSE Returned(StrictM([r \in 1..n |-> [c \in 1..n |->
                                                    RToInteger(sums[r][c])]]))
                             : sums \in {StrictM([r \in 1..n |-> [c \in 1..n |->
                                           RSumTo([x \in 1..n |->
                                                     RMul(invb.val[x][c], RInt(A[r][x]))], n)]])}})
                  : invb \in {matrix_inv([r \in 1..n |-> [c \in 1..n |-> RInt(B[r][c])]])}})

\* MultTable::get_inv_diff = [denom, numer], the inverse of the different
get_inv_diff(T) ==
  LET n == Len(T)
  IN Only({IF d.status # "ok" THEN Panicked
           ELSE Only({[status |-> "ok", denom |-> denom_lcm,
                       numer |-> HNF_new(StrictM([r \in 1..n |-> [c \in 1..n |->
                                   RToInteger(RMul(d.val[r][c], RInt(denom_lcm)))]]))]
                        : denom_lcm \in {LcmOf({d.val[r][c][2] : r \in 1..n, c \in 1..n})}})
             : d \in {matrix_inv([r \in 1..n |-> [c \in 1..n |-> RInt(mt_trace(T, T[r][c]))]])}})

\* trd[i][j] = d[j][i]
InvTranspose(d) == StrictM([r \in 1..Len(d) |-> [c \in 1..Len(d) |-> d[c][r]]])

\* Ideal::inv(inv_diff) = [denom, numer]
ideal_inv(T, h, inv_diff) ==
  LET n == Len(T)
  IN IF Len(h) < n \/ Len(inv_diff.numer) < n THEN Panicked
     ELSE Only({Only({IF d.status # "ok" THEN Panicked
                      ELSE [status |-> "ok", denom |-> cap_z(h),
                            numer |-> HNF_new(InvTranspose(d.val))]
                        : d \in {mul_inv_from_right_exact(ab, c)}})
                  : ab \in {StrictM([r \in 1..n |-> [c \in 1..n |->
                                       cap_z(h) * inv_diff.numer[r][c]]])},
                    c \in {ideal_mul(T, h, inv_diff.numer)}})

\* the integers n of the generators of the ideals (x) + (n)
MaxCapZ == 6

\* the ideals (x) + (n) of the order with table T, the zero ideal included
IdealsOf(T) ==
  {ideal_add(ideal_principal(T, x), ideal_principal(T, [c \in 1..Len(T) |-> IF c = 1 THEN n ELSE 0]))
     : x \in Elems(Len(T)), n \in 0..MaxCapZ}

\* the pairs (table, ideal) of the maximal orders and of all the orders
MaxOrderIdeals == UNION {{<<o.table, h>> : h \in IdealsOf(o.table)} : o \in MaxOrders}

OrderIdeals == UNION {{<<o.table, h>> : h \in IdealsOf(o.table)} : o \in MaxOrders \cup SinglyGenOrders}

InitIdeal ==
  /\ HnfIdle
  /\ ret = Pending
  /\ \/ \E o \in MaxOrders \cup SinglyGenOrders : \E x \in Elems(Len(o.table)) :
          call = [fn |-> "mt_inv", table |-> o.table, a |-> x, I |-> <<>>, J |-> <<>>]
     \/ \E x \in MaxOrderIdeals : \E y \in MaxOrderIdeals :
          /\ x[1] = y[1] /\ x[2] # <<>> /\ y[2] # <<>>
          /\ call = [fn |-> "ideal_mul", table |-> x[1], a |-> <<>>, I |-> x[2], J |-> y[2]]
     \/ \E x \in OrderIdeals : \E y \in Elems(Len(x[1])) :
          call = [fn |-> "contains", table |-> x[1], a |-> y, I |-> x[2], J |-> <<>>]
     \/ \E x \in MaxOrderIdeals :
          /\ x[2] # <<>>
          /\ call = [fn |-> "ideal_inv", table |-> x[1], a |-> <<>>, I |-> x[2], J |-> <<>>]

CallMtInv ==
  /\ call.fn = "mt_inv"
  /\ ret = Pending
  /\ ret' = mt_inv(call.table, call.a)
  /\ UNCHANGED <<call, input, a, u, k, i, pc>>

\* (I * J) with its norm
CallIdealMul ==
  /\ call.fn = "ideal_mul"
  /\ ret = Pending
  /\ \E h \in {ideal_mul(call.table, call.I, call.J)} :
       ret' = [status |-> "ok", hnf |-> h, norm |-> ideal_norm(h)]
  /\ UNCHANGED <<call, input, a, u, k, i, pc>>

CallContains ==
  /\ call.fn = "contains"
  /\ ret = Pending
  /\ ret' = Returned(contains(call.table, call.I, call.a))
  /\ UNCHANGED <<call, input, a, u, k, i, pc>>

\* I.inv(&T.get_inv_diff())
CallIdealInv ==
  /\ call.fn = "ideal_inv"
  /\ ret = Pending
  /\ \E dd \in {get_inv_diff(call.table)} :
       ret' = IF dd.status # "ok" THEN Panicked ELSE ideal_inv(call.table, call.I, dd)
  /\ UNCHANGED <<call, input, a, u, k, i, pc>>

NextIdeal == CallMtInv \/ CallIdealMul \/ CallContains \/ CallIdealInv

SpecIdeal == InitIdeal /\ [][NextIdeal]_vars

\* the integer matrix of MulMatrix
IntMulMatrix(T, x) ==
  [j \in 1..Len(T) |-> [c \in 1..Len(T) |-> SumTo([r \in 1..Len(T) |-> x[r] * T[r][j][c]], Len(T))]]

\* d times the first basis element
ScalarElem(d, n) == [c \in 1..n |-> IF c = 1 THEN d ELSE 0]

(***************************************************************************)
(* C11. For the table of an order whose first basis element is 1 and every *)
(* non-zero a, MultTable::inv(a) returns (b, d) with d = |norm(a)| > 0 and *)
(* mul(a, b) = (d, 0, ..., 0), also when norm(a) is negative.              *)
(***************************************************************************)
C11_MtInv ==
  (call.fn = "mt_inv" /\ ret # Pending /\ call.a # ZeroVec(Len(call.a))) =>
    /\ ret.status = "ok"
    /\ ret.norm = Abs(Det(IntMulMatrix(call.table, call.a)))
    /\ ret.norm > 0
    /\ mt_mul(call.table, call.a, ret.ans) = Strict(ScalarElem(ret.norm, Len(call.a)))

\* an element of negative norm that is not a rational integer, inverted
C11_Witness ==
  /\ call.fn = "mt_inv" /\ ret # Pending /\ ret.status = "ok"
  /\ Det(IntMulMatrix(call.table, call.a)) < -1
  /\ call.a[2] # 0
  /\ ret.ans[2] # 0

(***************************************************************************)
(* C12. For all non-zero integral ideals I, J of a maximal order that      *)
(* share one MultTable, (I * J).norm() = I.norm() * J.norm(), where norm() *)
(* is the determinant of the ideal's HNF.                                  *)
(***************************************************************************)
C12_NormMultiplicative ==
  (call.fn = "ideal_mul" /\ ret # Pending) =>
    /\ ret.norm = ideal_norm(call.I) * ideal_norm(call.J)
    /\ ret.norm = Abs(Det(ret.hnf))
    /\ ret.norm > 0

\* two proper ideals that are different and not generated by an integer,
\* multiplied in the order of degree 3
C12_Witness ==
  /\ call.fn = "ideal_mul" /\ ret # Pending
  /\ Len(call.table) = 3
  /\ call.I # call.J
  /\ ideal_norm(call.I) > 1 /\ ideal_norm(call.J) > 1
  /\ call.I[2][1] # 0 /\ call.J[3][2] # 0
  /\ ret.norm = ideal_norm(call.I) * ideal_norm(call.J)

\* v is an integer combination of the rows of h, h empty or of full rank
InRowLattice(h, v) ==
  IF Len(h) = 0 THEN v = ZeroVec(Len(v))
  ELSE \A r \in 1..Len(h) : Det([h EXCEPT ![r] = v]) % Abs(Det(h)) = 0

(***************************************************************************)
(* C13. For every ideal I and every element alpha of the order (alpha = 0  *)
(* included), I.contains(alpha) is true if and only if (alpha) is within   *)
(* I, that is, iff alpha is an integer combination of the rows of I's HNF; *)
(* ideals spanning the same lattice have identical HNFs.                   *)
(***************************************************************************)
C13_Contains ==
  (call.fn = "contains" /\ ret # Pending) =>
    /\ ret.status = "ok"
    /\ ret.val <=> InRowLattice(call.I, call.a)
    /\ ret.val <=> \A r \in 1..Len(ideal_principal(call.table, call.a)) :
                     InRowLattice(call.I, ideal_principal(call.table, call.a)[r])
    /\ Len(call.I) \in {0, Len(call.table)}

\* a proper non-zero ideal, not generated by an integer, that contains an
\* element alpha which is not a rational integer
C13_Witness ==
  /\ call.fn = "contains" /\ ret # Pending
  /\ ret.val = TRUE
  /\ Len(call.I) = Len(call.table)
  /\ ideal_norm(call.I) > 1
  /\ call.I[2][1] # 0
  /\ call.a[2] # 0

(***************************************************************************)
(* C14. For every non-zero integral ideal I of the maximal order with      *)
(* table T, I.inv(&T.get_inv_diff()) returns a fractional ideal with       *)
(* numerator J and denominator d > 0 such that I * J is the principal      *)
(* ideal generated by the integer d.                                       *)
(***************************************************************************)
C14_IdealInverse ==
  (call.fn = "ideal_inv" /\ ret # Pending) =>
    /\ ret.status = "ok"
    /\ ret.denom > 0
    /\ ideal_mul(call.table, call.I, ret.numer)
         = ideal_principal(call.table, ScalarElem(ret.denom, Len(call.table)))

(***************************************************************************)
(* Polynomials modulo p: src/src/poly_mod/prim.rs and the operators of     *)
(* src/src/polynomial.rs.                                                  *)
(***************************************************************************)

\* &a + &b of polynomial.rs
poly_add(f, g) ==
  IF Len(f) = 0 THEN g
  ELSE IF Len(g) = 0 THEN f
  ELSE from_raw([x \in 1..(IF Len(f) > Len(g) THEN Len(f) ELSE Len(g)) |->
                   coef_at(f, x - 1) + coef_at(g, x - 1)])

\* -a
poly_neg(f) == [x \in 1..Len(f) |-> -f[x]]

\* a mutant of poly_sub: the difference is not passed to from_raw
poly_sub_Raw(f, g) ==
  [x \in 1..(IF Len(f) > Len(g) THEN Len(f) ELSE Len(g)) |-> coef_at(f, x - 1) - coef_at(g, x - 1)]

\* &a - &b of polynomial.rs
poly_sub(f, g) ==
  IF Len(f) = 0 THEN poly_neg(g)
  ELSE IF Len(g) = 0 THEN f
  ELSE from_raw([x \in 1..(IF Len(f) > Len(g) THEN Len(f) ELSE Len(g)) |->
                   coef_at(f, x - 1) - coef_at(g, x - 1)])

\* &a * &b of polynomial.rs
poly_product(f, g) ==
  IF Len(f) = 0 \/ Len(g) = 0 THEN <<>>
  ELSE from_raw([n \in 1..(Len(f) + Len(g) - 1) |->
         SumTo([x \in 1..Len(f) |->
                  IF n - x >= 0 /\ n - x < Len(g) THEN f[x] * g[n - x + 1] ELSE 0], Len(f))])

\* modpow(x, e, modulus): the loop while e > 0
RECURSIVE modpow_loop(_, _, _, _)
modpow_loop(e, product, current, modulus) ==
  IF e > 0
  THEN Only({modpow_loop(e \div 2, pr, cu, modulus)
               : pr \in {IF e % 2 = 1 THEN TruncRem(product * current, modulus) ELSE product},
                 cu \in {TruncRem(current * current, modulus)}})
  ELSE product

modpow(x, e, modulus) == modpow_loop(e, 1, x, modulus)

modinv(x, p) == modpow(x, p - 2, p)

\* poly_mod(f, p): every coefficient mod_floor p
poly_mod(f, p) ==
  IF Len(f) = 0 THEN f ELSE from_raw([x \in 1..Len(f) |-> f[x] % p])

\* the floor of n / m, m > 0
div_floor(n, m) == (n - (n % m)) \div m

\* poly_div(f, divisor): every coefficient div_floor divisor
poly_div(f, divisor) ==
  IF Len(f) = 0 THEN f ELSE from_raw([x \in 1..Len(f) |-> div_floor(f[x], divisor)])

\* poly_mul(f, multiplier): every coefficient times multiplier
poly_mul(f, multiplier) ==
  IF Len(f) = 0 THEN f ELSE from_raw([x \in 1..Len(f) |-> f[x] * multiplier])

\* prim::differential(f, p)
prim_differential(f, p) ==
  IF is_zero(f) THEN <<>> ELSE poly_mod(differential(f), p)

\* poly_of_mod(f, a, p): Horner's rule, sum %= p with the sign of the dividend
RECURSIVE poly_of_mod_loop(_, _, _, _, _)
poly_of_mod_loop(f, x, p, ii, sum) ==
  IF ii < 0 THEN sum
  ELSE Only({poly_of_mod_loop(f, x, p, ii - 1, s2)
               : s2 \in {TruncRem(sum * x + coef_at(f, ii), p)}})

poly_of_mod(f, x, p) ==
  IF is_zero(f) THEN 0 ELSE poly_of_mod_loop(f, x, p, deg(f), 0)

\* poly_divrem: for i in (0..a_deg - b_deg + 1).rev(), s = [tmp, quo]
RECURSIVE divrem_loop(_, _, _, _, _)
divrem_loop(s, b, invlc, p, ii) ==
  IF ii < 0 THEN s
  ELSE Only({Only({divrem_loop(s2, b, invlc, p, ii - 1)
                     : s2 \in {[tmp |-> Strict([x \in 1..Len(s.tmp) |->
                                          IF ii <= x - 1 /\ x - 1 <= ii + Len(b) - 1
                                          THEN (s.tmp[x] - coef * b[x - ii]) % p
                                          ELSE s.tmp[x]]),
                                quo |-> [s.quo EXCEPT ![ii + 1] = coef]]}})
               : coef \in {(s.tmp[ii + Len(b)] * invlc) % p}})

\* poly_divrem(a, b, p) = <<quotient, remainder>>
poly_divrem(pa, pb, p) ==
  IF is_zero(pa) \/ is_zero(pb) \/ deg(pa) < deg(pb)
  THEN <<from_mono(0), pa>>
  ELSE Only({<<from_raw(qr.quo), from_raw(qr.tmp)>>
               : qr \in {divrem_loop([tmp |-> pa, quo |-> Strict([x \in 1..(Len(pa) - Len(pb) + 1) |-> 0])],
                                     pb, modinv(pb[Len(pb)], p), p, Len(pa) - Len(pb))}})

RECURSIVE poly_gcd(_, _, _)
poly_gcd(pa, pb, p) ==
  Only({IF is_zero(rem) THEN pb ELSE poly_gcd(pb, rem, p)
          : rem \in {poly_divrem(pa, pb, p)[2]}})

poly_mod_sub(pa, pb, p) == poly_mod(poly_sub(pa, pb), p)

\* poly_modpow(x, e, g, modulus): the loop while e > 0
RECURSIVE poly_modpow_loop(_, _, _, _, _)
poly_modpow_loop(e, product, current, g, modulus) ==
  IF e > 0
  THEN Only({poly_modpow_loop(e \div 2, pr, cu, g, modulus)
               : pr \in {IF e % 2 = 1
                         THEN poly_divrem(poly_mod(poly_product(product, current), modulus), g, modulus)[2]
                         ELSE product},
                 cu \in {poly_divrem(poly_mod(poly_product(current, current), modulus), g, modulus)[2]}})
  ELSE product

poly_modpow(x, e, g, modulus) == poly_modpow_loop(e, from_mono(1), x, g, modulus)

\* divide_by_x_a(poly, a, p): synthetic division, for i in (0..deg).rev()
RECURSIVE divide_by_x_a_loop(_, _, _, _, _, _)
divide_by_x_a_loop(poly, x, p, ii, carry, coefs) ==
  IF ii < 0 THEN coefs
  ELSE Only({divide_by_x_a_loop(poly, x, p, ii - 1, c2 * x, [coefs EXCEPT ![ii + 1] = c2])
               : c2 \in {(carry + coef_at(poly, ii + 1)) % p}})

\* the polynomial is not zero (deg = usize::MAX allocates a vector that large)
divide_by_x_a(poly, x, p) ==
  from_raw(divide_by_x_a_loop(poly, x, p, deg(poly) - 1, 0, Strict([y \in 1..deg(poly) |-> 0])))

(***************************************************************************)
(* src/src/poly_mod/factorize.rs: squarefree.                              *)
(***************************************************************************)

\* a call that never returns
Diverged == [status |-> "diverge"]

\* a mutant of SqExponent: the exponent of the outer round is dropped
SqExponent_Inner(e, kk) == kk

\* result.push((aek, e * k))
SqExponent(e, kk) == e * kk

\* raw[i] = t.coef_at(pusize * i) for i in 0..=t.deg() / pusize
EveryPth(t, pusize) ==
  from_raw([x \in 1..(deg(t) \div pusize + 1) |-> coef_at(t, pusize * (x - 1))])

\* the inner loop of squarefree, s = [t, v, k, e, result], left by
\* continue 'outer with the next [t0, e, result]
RECURSIVE squarefree_inner(_, _, _)
squarefree_inner(s, p, pusize) ==
  IF deg(s.v) = 0
  THEN [t0 |-> EveryPth(s.t, pusize), e |-> s.e * pusize, result |-> s.result]
  ELSE Only({Only({Only({squarefree_inner(s2, p, pusize)
       : s2 \in {[t |-> poly_divrem(s.t, w, p)[1], v |-> w, k |-> s.k + 1, e |-> s.e,
                  result |-> IF deg(aek) # 0
                             THEN Append(s.result, <<aek, SqExponent(s.e, s.k + 1)>>)
                             ELSE s.result]}})
       : aek \in {poly_divrem(s.v, w, p)[1]}})
       : w \in {poly_gcd(s.t, s.v, p)}})

\* 'outer: while t0.deg() != 0, s = [t0, e, result]
RECURSIVE squarefree_outer(_, _, _)
squarefree_outer(s, p, pusize) ==
  IF deg(s.t0) # 0
  THEN Only({Only({squarefree_outer(s2, p, pusize)
       : s2 \in {squarefree_inner([t |-> t, v |-> poly_divrem(s.t0, t, p)[1], k |-> 0,
                                   e |-> s.e, result |-> s.result], p, pusize)}})
       : t \in {poly_gcd(s.t0, prim_differential(s.t0, p), p)}})
  ELSE s.result

\* squarefree(poly, p, pusize); a polynomial that is zero mod p and not zero
\* keeps the inner loop pushing (0, e * k) for ever
squarefree(poly, p, pusize) ==
  IF is_zero(poly) THEN Panicked
  ELSE Only({IF is_zero(t0) THEN Diverged
             ELSE Returned(squarefree_outer([t0 |-> t0, e |-> 1, result |-> <<>>], p, pusize))
               : t0 \in {poly_mod(poly, p)}})

\* the greatest number of coefficients of the polynomials taken modulo 2, 3, 5
MaxLen2 == 6

MaxLen3 == 4

MaxLen5 == 3

\* the polynomials with at most n coefficients in -1..p-1
PolysUpTo(n, p) == UNION {PolysOfLen(m, 1) \cup {q \in [1..m -> 0..(p - 1)] : m = 0 \/ q[m] # 0} : m \in 0..n}

\* the pairs <<polynomial, prime>> squarefree is called with; the last three
\* are the polynomials of the repository's tests
SqInputs ==
  ({q \in PolysUpTo(MaxLen2, 2) : TRUE} \X {2})
  \cup (PolysUpTo(MaxLen3, 3) \X {3})
  \cup (PolysUpTo(MaxLen5, 5) \X {5})
  \cup {<<<<1, -2, 3, 1>>, 5>>, <<<<1, 0, 0, 0, 0, 1>>, 5>>, <<<<2, 0, 0, 0, 0, 3>>, 5>>}

\* the product of f and g with coefficients in 0..p-1
RefMulMod(f, g, p) ==
  IF Len(f) = 0 \/ Len(g) = 0 THEN <<>>
  ELSE from_raw([n \in 1..(Len(f) + Len(g) - 1) |-> MulCoef(f, g, n - 1) % p])

\* the polynomials with n coefficients in 0..p-1
PolysModLen(n, p) == {q \in [1..n -> 0..(p - 1)] : n = 0 \/ q[n] # 0}

\* h divides g modulo p, g not zero modulo p
DividesMod(h, g, p) ==
  /\ Len(h) <= Len(g)
  /\ \E q \in PolysModLen(Len(g) - Len(h) + 1, p) : RefMulMod(h, q, p) = g

\* the monic polynomials of degree dh modulo p
MonicMod(dh, p) == {q \in PolysModLen(dh + 1, p) : q[dh + 1] = 1}

\* no square of a non-constant polynomial divides g modulo p
SquareFreeMod(g, p) ==
  \A dh \in 1..((Len(g) - 1) \div 2) : \A h \in MonicMod(dh, p) :
    ~DividesMod(RefMulMod(h, h, p), g, p)

\* no non-constant polynomial divides both g1 and g2 modulo p
CoprimeMod(g1, g2, p) ==
  \A dh \in 1..(Len(g1) - 1) : \A h \in MonicMod(dh, p) :
    ~(DividesMod(h, g1, p) /\ DividesMod(h, g2, p))

RECURSIVE RefPowMod(_, _, _)
RefPowMod(g, e, p) == IF e = 0 THEN <<1>> ELSE RefMulMod(g, RefPowMod(g, e - 1, p), p)

\* the product of the g^e of the first n pairs of a list modulo p
RECURSIVE RefProdMod(_, _, _)
RefProdMod(res, n, p) ==
  IF n = 0 THEN <<1>>
  ELSE RefMulMod(RefProdMod(res, n - 1, p), RefPowMod(res[n][1], res[n][2], p), p)

SqReturned == call.fn = "squarefree" /\ ret.status = "ok"

(***************************************************************************)
(* C15. For every prime p, pusize = p and every polynomial f that is not   *)
(* zero mod p, squarefree(f, p, pusize) returns pairs (g_i, e_i) with      *)
(* e_i >= 1, every g_i non-constant and square-free mod p, the g_i         *)
(* pairwise coprime mod p, and the product of the g_i^(e_i) congruent to   *)
(* c * f mod p for a non-zero constant c; multiplicities that are          *)
(* multiples of p are included.                                            *)
(***************************************************************************)
C15_Squarefree ==
  (call.fn = "squarefree" /\ ret # Pending /\ poly_mod(call.poly, call.p) # <<>>) =>
    /\ ret.status = "ok"
    /\ \A x \in 1..Len(ret.val) :
         /\ ret.val[x][2] >= 1
         /\ Len(ret.val[x][1]) >= 2
         /\ ret.val[x][1] = poly_mod(ret.val[x][1], call.p)
         /\ SquareFreeMod(ret.val[x][1], call.p)
         /\ \A y \in 1..Len(ret.val) :
              x # y => CoprimeMod(ret.val[x][1], ret.val[y][1], call.p)
    /\ \E c \in 1..(call.p - 1) :
         RefProdMod(ret.val, Len(ret.val), call.p) = poly_mod(poly_mul(call.poly, c), call.p)

\* a factor of multiplicity 1 next to a factor whose multiplicity is a
\* multiple of p, found after every p-th coefficient was taken
C15_Witness ==
  /\ SqReturned
  /\ Len(ret.val) = 2
  /\ ret.val[1][2] = 1
  /\ ret.val[2][2] = call.p
  /\ Len(ret.val[2][1]) = 3

(***************************************************************************)
(* src/src/poly_mod/linear.rs: find_linear_factors.  The local variables   *)
(* are kept in ret: result, and stack, the polynomials of the calls of     *)
(* find_linear_factors_impl that are still to be run, the next one first.  *)
(***************************************************************************)

\* if x.coef_at(0) >= p { x = x - Polynomial::from_mono(p) }
WrapConst(x, p) == IF coef_at(x, 0) >= p THEN poly_sub(x, from_mono(p)) ELSE x

\* a mutant of RecurseRest: the rest is searched even when nothing was split off
RecurseRest_Always(poly_orig, poly) == TRUE

\* a mutant of RecurseRest: the rest is never searched
RecurseRest_Never(poly_orig, poly) == FALSE

\* if poly_orig != &poly
RecurseRest(poly_orig, poly) == poly_orig # poly

\* the calls a call makes, without those on a constant, which return at once
\* (if poly.deg() == 0 { return; })
Frames(calls) == SelectSeq(calls, LAMBDA q : deg(q) # 0)

\* the body of find_linear_factors_impl for deg >= 2 and the draw x:
\* [found: what is pushed on result, calls: the recursive calls in order]
find_linear_factors_impl(poly_orig, p, x) ==
  Only({Only({Only({Only({Only({Only({Only({
    [found |-> IF root THEN <<x>> ELSE <<>>,
     calls |-> (IF deg(gcd1) > 0 THEN <<gcd1>> ELSE <<>>)
               \o (IF deg(gcd2) > 0 THEN <<gcd2>> ELSE <<>>)
               \o (IF RecurseRest(poly_orig, poly3) THEN <<poly3>> ELSE <<>>)]
    : poly3 \in {IF deg(gcd2) > 0 THEN poly_divrem(poly2, gcd2, p)[1] ELSE poly2}})
    : gcd2 \in {poly_gcd(WrapConst(poly_add(xapow, from_mono(p - 1)), p), poly2, p)}})
    : poly2 \in {IF deg(gcd1) > 0 THEN poly_divrem(poly1, gcd1, p)[1] ELSE poly1}})
    : gcd1 \in {poly_gcd(WrapConst(poly_add(xapow, from_mono(1)), p), poly1, p)}})
    : xapow \in {poly_modpow(from_raw(<<(-x) % p, 1>>), TruncDiv(p - 1, 2), poly1, p)}})
    : poly1 \in {IF root THEN divide_by_x_a(poly_orig, x, p) ELSE poly_orig}})
    : root \in {poly_of_mod(poly_orig, x, p) = 0}})

\* the odd primes and the polynomials find_linear_factors is called with
MaxLen7 == 3

LinearInputs ==
  (PolysUpTo(MaxLen2, 2) \X {2})
  \cup (PolysUpTo(MaxLen3, 3) \X {3})
  \cup (PolysUpTo(MaxLen5, 5) \X {5})
  \cup (PolysUpTo(MaxLen7, 7) \X {7})
  \cup {<<<<0, 0, 1, 1, 1>>, 2>>, <<<<4, 0, 0, 1>>, 5>>, <<<<0, 1, 3, 3, 1>>, 5>>,
        <<<<0, 6, 0, 1>>, 7>>, <<<<1, 4, 6, 4, 1>>, 7>>}

InitLinear ==
  /\ input = <<>>
  /\ a = <<>>
  /\ u = <<>>
  /\ k = 0
  /\ i = 0
  /\ pc = "start"
  /\ \E x \in LinearInputs : call = [fn |-> "find_linear_factors", poly |-> x[1], p |-> x[2]]
  /\ ret = [result |-> <<>>, stack |-> <<>>, i |-> 0]

\* let poly = poly_mod(poly, &p); p == two selects the loop for p = 2.  For an
\* odd p the zero polynomial has deg() = usize::MAX and is divided by X - a,
\* which allocates a vector of that length
FlfStart ==
  /\ pc = "start"
  /\ \E poly \in {poly_mod(call.poly, call.p)} :
       /\ ret' = [ret EXCEPT !.stack = <<poly>>]
       /\ pc' = IF call.p = 2 THEN "mod2"
                ELSE IF is_zero(poly) THEN "panic"
                ELSE "impl"
  /\ UNCHANGED <<call, input, a, u, k, i>>

\* find_linear_factors_impl_mod2: one round of while poly_of_mod(..).is_zero();
\* vals[i] = i; the zero polynomial never leaves the loop
FlfMod2Divide ==
  /\ pc = "mod2"
  /\ ret.i < 2
  /\ poly_of_mod(ret.stack[1], ret.i, 2) = 0
  /\ ret' = [ret EXCEPT !.stack = IF is_zero(ret.stack[1]) THEN ret.stack
                                  ELSE <<divide_by_x_a(ret.stack[1], ret.i, 2)>>,
                        !.result = IF is_zero(ret.stack[1]) THEN ret.result
                                   ELSE Append(ret.result, ret.i)]
  /\ UNCHANGED <<pc, call, input, a, u, k, i>>

\* the while loop ends: the next i, or the end of the for loop
FlfMod2Next ==
  /\ pc = "mod2"
  /\ ret.i < 2
  /\ poly_of_mod(ret.stack[1], ret.i, 2) # 0
  /\ ret' = [ret EXCEPT !.i = ret.i + 1]
  /\ pc' = IF ret.i + 1 = 2 THEN "done" ELSE "mod2"
  /\ UNCHANGED <<call, input, a, u, k, i>>

\* find_linear_factors_impl with poly.deg() == 0: the call returns at once
FlfConstant ==
  /\ pc = "impl"
  /\ ret.stack # <<>>
  /\ deg(ret.stack[1]) = 0
  /\ ret' = [ret EXCEPT !.stack = Tail(ret.stack)]
  /\ UNCHANGED <<pc, call, input, a, u, k, i>>

\* find_linear_factors_impl with poly.deg() == 1
FlfLinear ==
  /\ pc = "impl"
  /\ ret.stack # <<>>
  /\ deg(ret.stack[1]) = 1
  /\ ret' = [ret EXCEPT !.stack = Tail(ret.stack),
                        !.result = Append(ret.result,
                           ((-coef_at(ret.stack[1], 0)) * modinv(coef_at(ret.stack[1], 1), call.p)) % call.p)]
  /\ UNCHANGED <<pc, call, input, a, u, k, i>>

\* find_linear_factors_impl with poly.deg() >= 2 and a = x drawn
FlfDraw(x) ==
  /\ pc = "impl"
  /\ ret.stack # <<>>
  /\ deg(ret.stack[1]) >= 2
  /\ x \in 0..(call.p - 1)
  /\ \E r \in {find_linear_factors_impl(ret.stack[1], call.p, x)} :
       ret' = [ret EXCEPT !.stack = Frames(r.calls) \o Tail(ret.stack),
                          !.result = ret.result \o r.found]
  /\ UNCHANGED <<pc, call, input, a, u, k, i>>

\* the outermost call has returned
FlfReturn ==
  /\ pc = "impl"
  /\ ret.stack = <<>>
  /\ pc' = "done"
  /\ UNCHANGED <<ret, call, input, a, u, k, i>>

\* the greatest prime of LinearInputs
MaxPrime == 7

FlfSteps == FlfStart \/ FlfMod2Divide \/ FlfMod2Next \/ FlfConstant \/ FlfLinear \/ FlfReturn

NextLinear == FlfSteps \/ \E x \in 0..(MaxPrime - 1) : FlfDraw(x)

SpecLinear == InitLinear /\ [][NextLinear]_vars

\* the program runs, and no residue is avoided for ever by the draws: while a
\* step that changes the state stays possible, such a step is taken (a draw
\* that changes nothing leaves the same draws to come)
SpecLinearFair == SpecLinear /\ WF_vars(NextLinear)

\* the multiplicity of r as a root of f modulo p, f not zero modulo p
RECURSIVE RootMult(_, _, _, _)
RootMult(f, r, p, m) ==
  IF DividesMod(RefPowMod(<<(-r) % p, 1>>, m + 1, p), f, p)
  THEN RootMult(f, r, p, m + 1) ELSE m

\* how often r occurs in the list
Count(list, r) == Cardinality({x \in 1..Len(list) : list[x] = r})

(***************************************************************************)
(* C16. For every prime p (2 included) and every polynomial f that is not  *)
(* zero mod p, whenever find_linear_factors(f, p) returns, whatever was    *)
(* drawn, the result is as a multiset exactly the roots of f in F_p, each  *)
(* as often as its multiplicity as a root of f mod p; a polynomial         *)
(* without roots gives the empty list.                                     *)
(***************************************************************************)
C16_LinearFactors ==
  (call.fn = "find_linear_factors" /\ pc = "done" /\ poly_mod(call.poly, call.p) # <<>>) =>
    /\ \A x \in 1..Len(ret.result) : ret.result[x] \in 0..(call.p - 1)
    /\ \A r \in 0..(call.p - 1) :
         Count(ret.result, r) = RootMult(poly_mod(call.poly, call.p), r, call.p, 0)

\* an odd prime, a double root and a simple root
C16_Witness ==
  /\ call.fn = "find_linear_factors" /\ pc = "done"
  /\ call.p > 2
  /\ Len(ret.result) = 3
  /\ \E r \in 0..(call.p - 1) : Count(ret.result, r) = 2

\* a step of find_linear_factors_impl replaces the first polynomial of the
\* stack by polynomials of at most its degree
CallsNotLarger ==
  (pc = "impl" /\ ret.stack # <<>>) =>
    \A x \in 1..(Len(ret'.stack) - Len(ret.stack) + 1) :
      deg(ret'.stack[x]) <= deg(ret.stack[1])

(***************************************************************************)
(* C17. For every odd prime p and every polynomial f that is not zero mod  *)
(* p, find_linear_factors(f, p) eventually returns, provided the draws     *)
(* avoid no residue of 0..p-1 for ever: every recursive call is on a       *)
(* polynomial of degree at most its caller's, and no polynomial makes      *)
(* every draw recurse on that same polynomial.                             *)
(***************************************************************************)
C17_Terminates ==
  /\ [][CallsNotLarger]_vars
  /\ (call.p # 2 /\ poly_mod(call.poly, call.p) # <<>>) ~> (pc = "done")

\* a call modulo 7 that has returned two different roots of a polynomial of
\* degree 2, which only a draw can separate
C17_Witness ==
  /\ call.fn = "find_linear_factors" /\ pc = "done"
  /\ call.p = 7
  /\ Len(call.poly) = 3
  /\ Len(ret.result) = 2
  /\ ret.result[1] # ret.result[2]

(***************************************************************************)
(* src/src/poly_mod/hensel.rs and poly_coprime_witness of prim.rs.         *)
(***************************************************************************)

\* Integer::extended_gcd(x, m) of the num crate: the loop on r = (m, x),
\* s = (0, 1); st = <<r0, r1, s0, s1>>, the result is <<gcd, x coefficient>>
RECURSIVE extended_gcd_loop(_)
extended_gcd_loop(st) ==
  IF st[1] = 0
  THEN IF st[2] >= 0 THEN <<st[2], st[4]>> ELSE <<-st[2], -st[4]>>
  ELSE Only({extended_gcd_loop(<<st[2] - q * st[1], st[1], st[4] - q * st[3], st[3]>>)
               : q \in {TruncDiv(st[2], st[1])}})

extended_gcd(x, m) == extended_gcd_loop(<<m, x, 0, 1>>)

\* poly_ext_gcd(a, b, p) = <<g, u, v>> with g = a u + b v
RECURSIVE poly_ext_gcd(_, _, _)
poly_ext_gcd(pa, pb, p) ==
  Only({IF is_zero(qr[2]) THEN <<pb, qr[2], from_mono(1)>>
        ELSE Only({<<g[1], g[3], poly_mod_sub(g[2], poly_mod(poly_product(qr[1], g[3]), p), p)>>
                     : g \in {poly_ext_gcd(pb, qr[2], p)}})
          : qr \in {poly_divrem(pa, pb, p)}})

\* poly_coprime_witness(a, b, p) = <<u, v>>, or a panic
poly_coprime_witness(pa, pb, p) ==
  Only({IF deg(g[1]) # 0 THEN Panicked
        ELSE Only({Returned(<<poly_mod(poly_mul(g[2], inv), p), poly_mod(poly_mul(g[3], inv), p)>>)
                     : inv \in {extended_gcd(coef_at(g[1], 0), p)[2] % p}})
          : g \in {poly_ext_gcd(pa, pb, p)}})

\* a mutant of HenselB0: b * t is left out
HenselB0_NoT(pu, f, pb, t) == poly_product(pu, f)

\* let b0 = u * &f + b * &t
HenselB0(pu, f, pb, t) == poly_add(poly_product(pu, f), poly_product(pb, t))

\* hensel_lift(p, q, c, a, b, u, v) = <<a1, b1, qr>>
hensel_lift(p, q, c, pa, pb, pu, pv) ==
  Only({Only({Only({
    <<poly_mod(poly_add(pa, poly_mul(poly_sub(poly_product(pv, f), poly_product(pa, t)), q)), q * r),
      poly_mod(poly_add(pb, poly_mul(HenselB0(pu, f, pb, t), q)), q * r),
      q * r>>
    : t \in {poly_divrem(poly_product(pv, f), pa, r)[1]}})
    : f \in {poly_mod(poly_div(poly_sub(c, poly_product(pa, pb)), q), r)}})
    : r \in {GCD(p, q)}})

\* for i in 0..n: current = poly_mod(&(&current * &factors[i]), q)
RECURSIVE accumulate(_, _, _)
accumulate(factors, n, q) ==
  IF n = 0 THEN <<>>
  ELSE Only({Append(acc, poly_mod(poly_product(IF n = 1 THEN from_mono(1) ELSE acc[n - 1],
                                               factors[n]), q))
               : acc \in {accumulate(factors, n - 1, q)}})

\* for i in (1..n).rev(), s = [result, product]; a panic of
\* poly_coprime_witness ends the call
RECURSIVE hlm_loop(_, _, _, _, _, _)
hlm_loop(s, ii, p, q, factors, accumulated) ==
  IF ii < 1 THEN Returned(s)
  ELSE Only({IF w.status # "ok" THEN Panicked
             ELSE Only({hlm_loop([result |-> Append(s.result, h[2]), product |-> h[1]],
                                 ii - 1, p, q, factors, accumulated)
                          : h \in {hensel_lift(p, q, s.product, accumulated[ii], factors[ii + 1],
                                               w.val[1], w.val[2])}})
               : w \in {poly_coprime_witness(accumulated[ii], factors[ii + 1], p)}})

\* the sequence backwards
Reverse(sq) == [x \in 1..Len(sq) |-> sq[Len(sq) + 1 - x]]

\* hensel_lift_multiple(p, q, c, factors) = <<result, q * r>>
hensel_lift_multiple(p, q, c, factors) ==
  IF Len(factors) = 0 THEN Returned(<<<<>>, q * GCD(p, q)>>)
  ELSE Only({IF l.status # "ok" THEN Panicked
             ELSE Returned(<<Strict(Reverse(Append(l.val.result, l.val.product))), q * GCD(p, q)>>)
               : l \in {hlm_loop([result |-> <<>>, product |-> c], Len(factors) - 1, p, q,
                                 factors, accumulate(factors, Len(factors), q))}})

\* a mutant of LiftDivided: c is not scaled by the inverse of its leading
\* coefficient
LiftDivided_Unscaled(c, invlc, next_cur) == poly_mod(c, next_cur)

\* let divided = poly_mod(&poly_mul(c, &invlc), &next_cur)
LiftDivided(c, invlc, next_cur) == poly_mod(poly_mul(c, invlc), next_cur)

\* for _ in 1..e, s = [res, cur]
RECURSIVE lift_loop(_, _, _, _, _)
lift_loop(s, round, p, e, c) ==
  IF round >= e THEN Returned(s.res)
  ELSE Only({Only({Only({IF sub.status # "ok" THEN Panicked
                         ELSE lift_loop([res |-> sub.val[1], cur |-> next_cur], round + 1, p, e, c)
       : sub \in {hensel_lift_multiple(p, s.cur, LiftDivided(c, invlc, next_cur), s.res)}})
       : invlc \in {extended_gcd(coef_at(c, deg(c)), next_cur)[2] % next_cur}})
       : next_cur \in {s.cur * p}})

\* lift_factorization(p, e, c, factors)
lift_factorization(p, e, c, factors) == lift_loop([res |-> factors, cur |-> p], 1, p, e, c)

(***************************************************************************)
(* The calls of src/src/poly_mod: squarefree, hensel_lift and              *)
(* lift_factorization, each on the inputs its documentation allows.        *)
(***************************************************************************)

\* the moduli p, q of hensel_lift
MaxHenselMod == 4

\* the coefficients of a
MaxHenselCoef == 2

\* a constant polynomial or zero, as u and v
HenselConsts == {<<>>} \cup {<<n>> : n \in ((-1)..(MaxHenselMod - 1)) \ {0}}

\* f g + h e = 1 modulo m, coefficient by coefficient
BezoutMod(f, g, h, e, m) ==
  \A n \in 0..(Len(f) + Len(g) + Len(h) + Len(e)) :
    (MulCoef(f, g, n) + MulCoef(h, e, n) - (IF n = 0 THEN 1 ELSE 0)) % m = 0

\* <<p, q, a, b, u, v>> of the tests hensel_lift_works_0 and
\* poly_coprime_witness_works_1
HenselTests ==
  {<<9, 9, <<-3, 1>>, <<-4, 1>>, <<1>>, <<-1>>>>,
   <<5, 5, <<1, 1, 1>>, <<3, 1>>, <<3>>, <<1, 2>>>>,
   <<5, 25, <<1, 1, 1>>, <<3, 1>>, <<3>>, <<1, 2>>>>}

\* <<p, q, a, b, u, v>>: a, b of degree 1 with constants u, v such that
\* a u + b v = 1 modulo p and gcd(l(a), gcd(p, q)) = 1
HenselABUV(p, q) ==
  {<<p, q, x[1], x[2], x[3], x[4]>> :
     x \in {x \in PolysOfLen(2, MaxHenselCoef) \X PolysOfLen(2, 1)
                    \X HenselConsts \X HenselConsts :
              /\ BezoutMod(x[1], x[3], x[2], x[4], p)
              /\ GCD(x[1][2], GCD(p, q)) = 1}}

\* the polynomials a b + q d of degree deg a + deg b, d with coefficients
\* 0 and 1
HenselCs(pa, pb, q) ==
  {c \in {from_raw([n \in 1..(Len(pa) + Len(pb) - 1) |->
                      MulCoef(pa, pb, n - 1) + q * coef_at(d, n - 1)])
            : d \in [1..(Len(pa) + Len(pb) - 1) -> {0, 1}]}
      : Len(c) = Len(pa) + Len(pb) - 1}

\* <<p, q, c, a, b, u, v>> for each <<p, q, a, b, u, v>> of S
HenselInputs(S) ==
  UNION {{<<x[1], x[2], c, x[3], x[4], x[5], x[6]>> : c \in HenselCs(x[3], x[4], x[2])}
           : x \in S}

\* the exponent e of lift_factorization
MaxExp == 3

\* the product of the first n polynomials of the list L, modulo m
RECURSIVE ListProdMod(_, _, _)
ListProdMod(L, n, m) ==
  IF n = 0 THEN (IF m = 1 THEN <<>> ELSE <<1>>)
  ELSE RefMulMod(ListProdMod(L, n - 1, m), L[n], m)

\* pairwise distinct and pairwise coprime modulo p
PairwiseCoprime(L, p) ==
  \A x, y \in 1..Len(L) :
    x < y => /\ poly_mod(L[x], p) # poly_mod(L[y], p)
             /\ CoprimeMod(poly_mod(L[x], p), poly_mod(L[y], p), p)

\* the lists of factors modulo p: one or two polynomials of degree 1 or,
\* below 5, monic of degree 2, and three monic polynomials of degree 1
FactorLists(p) ==
  {L \in UNION {[1..n -> PolysModLen(2, p) \cup (IF p < 5 THEN MonicMod(2, p) ELSE {})]
                  : n \in 1..2}
         \cup [1..3 -> MonicMod(1, p)] : PairwiseCoprime(L, p)}

\* k times the product of L modulo p, every second coefficient moved below
\* zero by p (sh = 0, 1) or none (sh = 2)
LiftC(L, kk, sh, p) ==
  Only({Strict([n \in 1..Len(P) |->
                  ((kk * P[n]) % p) - (IF sh < 2 /\ (n + sh) % 2 = 0 THEN p ELSE 0)])
          : P \in {ListProdMod(L, Len(L), p)}})

\* <<p, e, c, factors>> for the prime p; for 5 also the test
\* lift_factorization_works_0
LiftInputs(p) ==
  UNION {{<<p, e, LiftC(L, kk, sh, p), L>>
            : <<e, kk, sh>> \in (1..MaxExp) \X (1..(p - 1)) \X (0..2)}
           : L \in FactorLists(p)}
  \cup (IF p = 5 THEN {<<5, 3, <<-2, 0, 0, 1>>, <<<<2, 1>>, <<4, 3, 1>>>>>>} ELSE {})

InitModP ==
  /\ HnfIdle
  /\ ret = Pending
  /\ \/ \E x \in SqInputs : call = [fn |-> "squarefree", poly |-> x[1], p |-> x[2]]
     \/ \E S \in {HenselTests} \cup {HenselABUV(p, q) : p, q \in 2..MaxHenselMod} :
          \E x \in HenselInputs(S) :
            call = [fn |-> "hensel_lift", p |-> x[1], q |-> x[2], c |-> x[3], a |-> x[4],
                    b |-> x[5], u |-> x[6], v |-> x[7]]
     \/ \E p \in {2, 3, 5} : \E x \in LiftInputs(p) :
          call = [fn |-> "lift_factorization", p |-> x[1], e |-> x[2], c |-> x[3],
                  factors |-> x[4]]

CallSquarefree ==
  /\ call.fn = "squarefree"
  /\ ret = Pending
  /\ ret' = squarefree(call.poly, call.p, call.p)
  /\ UNCHANGED <<call, input, a, u, k, i, pc>>

CallHenselLift ==
  /\ call.fn = "hensel_lift"
  /\ ret = Pending
  /\ ret' = Returned(hensel_lift(call.p, call.q, call.c, call.a, call.b, call.u, call.v))
  /\ UNCHANGED <<call, input, a, u, k, i, pc>>

CallLiftFactorization ==
  /\ call.fn = "lift_factorization"
  /\ ret = Pending
  /\ ret' = lift_factorization(call.p, call.e, call.c, call.factors)
  /\ UNCHANGED <<call, input, a, u, k, i, pc>>

NextModP == CallSquarefree \/ CallHenselLift \/ CallLiftFactorization

SpecModP == InitModP /\ [][NextModP]_vars

\* f = g modulo m, coefficient by coefficient
CongruentMod(f, g, m) ==
  \A n \in 0..(Len(f) + Len(g)) : (coef_at(f, n) - coef_at(g, n)) % m = 0

\* the documented preconditions of hensel_lift
HenselPre ==
  /\ call.p >= 2 /\ call.q >= 2
  /\ \A n \in 0..Len(call.c) :
       (coef_at(call.c, n) - MulCoef(call.a, call.b, n)) % call.q = 0
  /\ BezoutMod(call.a, call.u, call.b, call.v, call.p)
  /\ GCD(coef_at(call.a, deg(call.a)), GCD(call.p, call.q)) = 1
  /\ Len(call.u) < Len(call.b) /\ Len(call.v) < Len(call.a)
  /\ Len(call.a) >= 1 /\ Len(call.b) >= 1
  /\ Len(call.c) = Len(call.a) + Len(call.b) - 1

(***************************************************************************)
(* C18: for p, q >= 2, r = gcd(p, q), and c, a, b, u, v with c = a b mod   *)
(* q, a u + b v = 1 mod p, gcd(l(a), r) = 1, deg u < deg b, deg v < deg a  *)
(* and deg c = deg a + deg b, hensel_lift returns (a1, b1, q r) with       *)
(* c = a1 b1 modulo q r; p and q need not be prime.                        *)
(***************************************************************************)
C18_HenselLift ==
  (call.fn = "hensel_lift" /\ ret # Pending /\ HenselPre) =>
    /\ ret.status = "ok"
    /\ ret.val[3] = call.q * GCD(call.p, call.q)
    /\ \A n \in 0..(Len(ret.val[1]) + Len(ret.val[2]) + Len(call.c)) :
         (coef_at(call.c, n) - MulCoef(ret.val[1], ret.val[2], n)) % ret.val[3] = 0

\* a lift from 4 to 16, p = q composite, that moved both factors and where
\* c differs from a b modulo 16
C18_Witness ==
  /\ call.fn = "hensel_lift" /\ ret # Pending /\ HenselPre
  /\ call.p = 4 /\ call.q = 4
  /\ ret.val[1] # poly_mod(call.a, 16)
  /\ ret.val[2] # poly_mod(call.b, 16)
  /\ \E n \in 0..2 : (coef_at(call.c, n) - MulCoef(call.a, call.b, n)) % 16 # 0

\* the preconditions of the claim on lift_factorization: p prime, e >= 1,
\* l(c) not divisible by p, the factors pairwise distinct and coprime
\* modulo p, and c a non-zero constant times their product modulo p
LiftPre ==
  /\ call.p \in {2, 3, 5}
  /\ call.e >= 1
  /\ coef_at(call.c, deg(call.c)) % call.p # 0
  /\ PairwiseCoprime(call.factors, call.p)
  /\ \E kk \in 1..(call.p - 1) :
       CongruentMod(call.c,
                    RefMulMod(<<kk>>, ListProdMod(call.factors, Len(call.factors), call.p),
                              call.p), call.p)

\* the call returned G_1..G_k with deg G_i = deg F_i and l(c) times their
\* product congruent to c modulo p^e
LiftPost ==
  /\ ret.status = "ok"
  /\ Len(ret.val) = Len(call.factors)
  /\ \A x \in 1..Len(ret.val) : Len(ret.val[x]) = Len(call.factors[x])
  /\ CongruentMod(call.c,
                  RefMulMod(<<coef_at(call.c, deg(call.c)) % Pow(call.p, call.e)>>,
                            ListProdMod(ret.val, Len(ret.val), Pow(call.p, call.e)),
                            Pow(call.p, call.e)),
                  Pow(call.p, call.e))

\* the product of the factors is c divided by its leading coefficient,
\* modulo p
LiftNormalised ==
  CongruentMod(call.c,
               RefMulMod(<<coef_at(call.c, deg(call.c)) % call.p>>,
                         ListProdMod(call.factors, Len(call.factors), call.p), call.p),
               call.p)

RECURSIVE content_loop(_, _)
content_loop(f, n) == IF n = 0 THEN 0 ELSE GCD(content_loop(f, n - 1), f[n])

content(f) == content_loop(f, Len(f))

\* div_exact has no quotient
NoQuotient == [status |-> "none"]

\* the division loop of div_exact: a step whose quotient is not an integer
\* or a final remainder that is not zero gives None
RECURSIVE div_exact_loop(_, _, _, _)
div_exact_loop(tmp, quo, b, ii) ==
  IF ii < 0
  THEN IF \A x \in 1..Len(tmp) : tmp[x] = 0 THEN Returned(from_raw(quo)) ELSE NoQuotient
  ELSE IF tmp[ii + Len(b)] % Abs(b[Len(b)]) # 0 THEN NoQuotient
  ELSE Only({div_exact_loop(Strict([x \in 1..Len(tmp) |->
                                      IF ii <= x - 1 /\ x - 1 <= ii + Len(b) - 1
                                      THEN tmp[x] - coef * b[x - ii]
                                      ELSE tmp[x]]),
                            Strict([quo EXCEPT ![ii + 1] = coef]), b, ii - 1)
               : coef \in {TruncDiv(tmp[ii + Len(b)], b[Len(b)])}})

\* div_exact(a, b): Some(a / b) if b divides a in Z[x], else None
div_exact(pa, pb) ==
  IF is_zero(pb) THEN NoQuotient
  ELSE IF is_zero(pa) THEN Returned(pa)
  ELSE IF Len(pa) < Len(pb) THEN NoQuotient
  ELSE div_exact_loop(Strict(pa), Strict([x \in 1..(Len(pa) - Len(pb) + 1) |-> 0]), pb,
                      Len(pa) - Len(pb))

\* the loop of resultant_smart_gcd; the value is f after the loop
RECURSIVE resultant_gcd_loop(_, _, _, _)
resultant_gcd_loop(f, g, ra, rb) ==
  IF is_zero(g) THEN f
  ELSE IF deg(g) = 0 THEN from_mono(1)
  ELSE IF deg(f) < deg(g) THEN resultant_gcd_loop(g, f, ra, rb)
  ELSE Only({Only({Only({
         resultant_gcd_loop(g, Strict([x \in 1..Len(h) |-> TruncDiv(h[x], ra * Pow(rb, delta))]),
                            a2, TruncDiv(Pow(a2, delta) * rb, Pow(rb, delta)))
         : a2 \in {g[deg(g) + 1]}})
         : h \in {pseudo_div_rem_bigint(f, g)[2]}})
         : delta \in {deg(f) - deg(g)}})

\* resultant_gcd(a, b) = resultant_smart_gcd(a, b)
resultant_gcd(f, g) ==
  IF is_zero(f) THEN g
  ELSE Only({Only({poly_mul(poly_div(l, content(l)), d)
                     : l \in {resultant_gcd_loop(poly_div(f, content(f)),
                                                 poly_div(g, content(g)), 1, 1)}})
               : d \in {GCD(content(f), content(g))}})

\* is_prime of number-theory-elementary: trial division
is_prime(n) == n > 1 /\ \A dd \in 2..n : dd * dd <= n => n % dd # 0

\* for now in Primes::new(): the first prime modulo which a and its
\* derivative are coprime
RECURSIVE select_prime(_, _)
select_prime(pa, now) ==
  IF ~is_prime(now) THEN select_prime(pa, now + 1)
  ELSE Only({IF deg(poly_gcd(am, prim_differential(am, now), now)) = 0 THEN now
             ELSE select_prime(pa, now + 1)
               : am \in {poly_mod(pa, now)}})

\* Theorem 3.5.1: sum = |l(a)| + the sum of the |a_i|, doubled n - 1 times,
\* then bound = bound * 2 * |l(a)|
MignotteBound(pa) ==
  (Abs(pa[Len(pa)]) + SumTo([x \in 1..Len(pa) |-> Abs(pa[x])], Len(pa)))
    * Pow(2, Len(pa) - 2) * 2 * Abs(pa[Len(pa)])

\* while pe <= bound { pe = &pe * &p; e += 1; }, s = <<pe, e>>
RECURSIVE pe_loop(_, _, _)
pe_loop(s, p, bound) == IF s[1] <= bound THEN pe_loop(<<s[1] * p, s[2] + 1>>, p, bound) ELSE s

\* the monic divisors modulo p of f of degree 1 to deg f / 2
SmallDivisors(f, p) ==
  {g \in UNION {MonicMod(dh, p) : dh \in 1..((Len(f) - 1) \div 2)} :
     is_zero(poly_divrem(f, g, p)[2])}

\* the monic irreducible factors of f modulo p with repetition, the
\* smallest degree first
RECURSIVE irreducible_factors(_, _)
irreducible_factors(f, p) ==
  IF Len(f) <= 1 THEN <<>>
  ELSE Only({IF S = {} THEN <<poly_mod(poly_mul(f, modinv(f[Len(f)], p)), p)>>
             ELSE Only({<<g>> \o irreducible_factors(poly_divrem(f, g, p)[1], p)
                          : g \in {CHOOSE g \in S : \A h \in S : Len(g) <= Len(h)}})
               : S \in {SmallDivisors(f, p)}})

\* factorize_mod_p(a, p, pusize): the monic irreducible factors of a modulo
\* p, each with its multiplicity
factorize_mod_p(pa, p) ==
  Only({Only({[x \in 1..Len(dist) |->
                 <<dist[x], Cardinality({y \in 1..Len(all) : all[y] = dist[x]})>>]
                : dist \in {SelectSeq([x \in 1..Len(all) |->
                                         IF \E y \in 1..(x - 1) : all[y] = all[x]
                                         THEN <<>> ELSE all[x]],
                                      LAMBDA g : g # <<>>)}})
          : all \in {irreducible_factors(poly_mod(pa, p), p)}})

\* the number of bits set among the lowest n of bits
RECURSIVE count_ones(_, _)
count_ones(bits, n) ==
  IF n = 0 THEN 0 ELSE count_ones(bits, n - 1) + ((bits \div Pow(2, n - 1)) % 2)

\* for i in 0..lifted.len(): prod = poly_mod(prod * lifted[i], pe) if bit i
\* of bits is set
RECURSIVE subset_prod(_, _, _, _)
subset_prod(lifted, bits, n, pe) ==
  IF n = 0 THEN from_mono(1)
  ELSE Only({IF (bits \div Pow(2, n - 1)) % 2 = 1
             THEN poly_mod(poly_product(prev, lifted[n]), pe) ELSE prev
               : prev \in {subset_prod(lifted, bits, n - 1, pe)}})

\* modify prod so that all coefficients are in [-p^e/2, p^e/2)
Centered(prod, pe, pe2) ==
  Only({poly_sub(poly_mod(poly_add(prod, bias), pe), bias)
          : bias \in {from_raw([x \in 1..Len(prod) |-> pe2])}})

\* the lifted factors that are left when those of bits are removed
RemoveBits(lifted, bits) ==
  Only({Strict([x \in 1..Len(keep) |-> lifted[keep[x]]])
          : keep \in {SelectSeq([x \in 1..Len(lifted) |-> x],
                                LAMBDA x : (bits \div Pow(2, x - 1)) % 2 = 0)}})

\* the most factors modulo p the combination step accepts
MaxLifted == 25

\* 5. Try combination: the loop 'outer, s = [lifted, a, result, d]
RECURSIVE recombine(_, _, _)
recombine(s, pe, pe2) ==
  IF 2 * s.d > Len(s.lifted) THEN Returned(Append(s.result, s.a))
  ELSE IF Len(s.lifted) > MaxLifted THEN Panicked
  ELSE Only({IF hits = {} THEN recombine([s EXCEPT !.d = s.d + 1], pe, pe2)
             ELSE Only({Only({
                    recombine([lifted |-> RemoveBits(s.lifted, bits), a |-> div_exact(s.a, prod).val,
                               result |-> Append(s.result, prod), d |-> s.d], pe, pe2)
                    : prod \in {Centered(subset_prod(s.lifted, bits, Len(s.lifted), pe), pe, pe2)}})
                    : bits \in {CHOOSE b \in hits : \A c \in hits : b <= c}})
               : hits \in {{b \in 0..(Pow(2, Len(s.lifted)) - 1) :
                              /\ count_ones(b, Len(s.lifted)) = s.d
                              /\ div_exact(s.a, Centered(subset_prod(s.lifted, b, Len(s.lifted), pe),
                                                         pe, pe2)).status = "ok"}}})

\* get_factors_of_squarefree up to the call of factorize_mod_p: a panic of
\* the assertion l(a) = 1, or the prime, e, p^e and the factors modulo p
gfs_prepare(pa) ==
  IF pa[Len(pa)] # 1 THEN Panicked
  ELSE Only({Only({Only({
         IF \E x \in 1..Len(factors) : factors[x][2] # 1 THEN Panicked
         ELSE Returned([p |-> p, e |-> pe[2], pe |-> pe[1],
                        factors |-> [x \in 1..Len(factors) |-> factors[x][1]]])
         : factors \in {factorize_mod_p(pa, p)}})
         : pe \in {pe_loop(<<1, 0>>, p, MignotteBound(pa))}})
         : p \in {select_prime(pa, 2)}})

\* get_factors_of_squarefree from lift_factorization on, the factors modulo
\* p taken in the order ord
gfs_combine(pa, prep, ord) ==
  Only({IF lifted.status # "ok" THEN Panicked
        ELSE recombine([lifted |-> lifted.val, a |-> pa, result |-> <<>>, d |-> 1],
                       prep.pe, TruncDiv(prep.pe, 2))
          : lifted \in {lift_factorization(prep.p, prep.e, pa,
                                           Strict([x \in 1..Len(ord) |-> prep.factors[ord[x]]]))}})

\* the coefficients of the polynomials factorize is called with
MaxLenZ == 4

MaxCoefZ == 2

\* the greatest multiplicity of a factor of the inputs x^m and (x + 1)^m
MaxMult == 7

\* the product of f and g over Z, as Mul for &Polynomial
RECURSIVE PowZ(_, _)
PowZ(f, n) == IF n = 0 THEN <<1>> ELSE poly_product(PowZ(f, n - 1), f)

\* every polynomial with at most MaxLenZ coefficients up to MaxCoefZ, the
\* powers of x and of x + 1, the polynomials of the tests and products of
\* three to five irreducible factors
FzInputs ==
  UNION {PolysOfLen(n, MaxCoefZ) : n \in 0..MaxLenZ}
  \cup {PowZ(<<0, 1>>, m) : m \in 1..MaxMult}
  \cup {PowZ(<<1, 1>>, m) : m \in 1..MaxMult}
  \cup {<<-3, 2, 1>>, <<1, 2, 1>>, <<2, 4, 2>>, <<2, 7, 6>>,
        <<4, 0, 0, 0, 1>>, <<1, 0, 0, 0, 1>>, <<4, 0, -5, 0, 1>>, <<0, -1, 0, 0, 0, 1>>,
        <<3, 3, -3, -3>>, <<-1, -1, 1, 1>>, <<1, -1, -1, 1>>, <<-2, 0, 3, 0, 0, 1>>}

\* the orders a list of n factors can be returned in
Orders(n) == {ord \in [1..n -> 1..n] : \A x, y \in 1..n : ord[x] = ord[y] => x = y}

InitPolyZ ==
  /\ input = <<>> /\ a = <<>> /\ u = <<>> /\ k = 0 /\ i = 0
  /\ pc = "start"
  /\ ret = Pending
  /\ \E f \in FzInputs : call = [fn |-> "factorize", poly |-> f]

\* factorize up to the squarefree part: 0, a constant, or content, a, gcd
\* and sqfree
FzStart ==
  /\ pc = "start"
  /\ IF is_zero(call.poly)
     THEN pc' = "done" /\ ret' = Returned(<<0, <<>>>>)
     ELSE IF deg(call.poly) = 0
     THEN pc' = "done" /\ ret' = Returned(<<content(call.poly), <<>>>>)
     ELSE \E conta \in {content(call.poly)} :
          \E pa \in {poly_div(call.poly, conta)} :
          \E gcd \in {resultant_gcd(pa, differential(pa))} :
          \E sq \in {IF deg(gcd) # 0 THEN div_exact(pa, gcd) ELSE Returned(pa)} :
            IF sq.status # "ok"
            THEN pc' = "done" /\ ret' = Panicked
            ELSE /\ pc' = "factors"
                 /\ ret' = [status |-> "run", conta |-> conta, a |-> pa, sqfree |-> sq.val,
                            factors |-> <<>>, e |-> 0, result |-> <<>>]
  /\ UNCHANGED <<call, input, a, u, k, i>>

\* let factors = get_factors_of_squarefree(&sqfree), factorize_mod_p
\* returning its factors in any order
FzFactors ==
  /\ pc = "factors"
  /\ \E prep \in {gfs_prepare(ret.sqfree)} :
       IF prep.status # "ok"
       THEN pc' = "done" /\ ret' = Panicked
       ELSE \E ord \in Orders(Len(prep.val.factors)) :
            \E fs \in {gfs_combine(ret.sqfree, prep.val, ord)} :
              IF fs.status # "ok"
              THEN pc' = "done" /\ ret' = Panicked
              ELSE pc' = "mult" /\ ret' = [ret EXCEPT !.factors = fs.val]
  /\ UNCHANGED <<call, input, a, u, k, i>>

\* while let Some(quo) = div_exact(&a, &factor) { assert!(e <= 5); ... }
FzDivide ==
  /\ pc = "mult"
  /\ ret.factors # <<>>
  /\ \E quo \in {div_exact(ret.a, ret.factors[1])} :
       /\ quo.status = "ok"
       /\ IF ret.e <= 5
          THEN pc' = "mult" /\ ret' = [ret EXCEPT !.a = quo.val, !.e = ret.e + 1]
          ELSE pc' = "done" /\ ret' = Panicked
  /\ UNCHANGED <<call, input, a, u, k, i>>

\* the while loop ends: result.push((factor, e)), and the next factor
FzPush ==
  /\ pc = "mult"
  /\ ret.factors # <<>>
  /\ div_exact(ret.a, ret.factors[1]).status # "ok"
  /\ ret' = [ret EXCEPT !.factors = Tail(ret.factors), !.e = 0,
                        !.result = Append(ret.result, <<ret.factors[1], ret.e>>)]
  /\ UNCHANGED <<pc, call, input, a, u, k, i>>

\* (conta, result)
FzReturn ==
  /\ pc = "mult"
  /\ ret.factors = <<>>
  /\ pc' = "done"
  /\ ret' = Returned(<<ret.conta, ret.result>>)
  /\ UNCHANGED <<call, input, a, u, k, i>>

NextPolyZ == FzStart \/ FzFactors \/ FzDivide \/ FzPush \/ FzReturn

SpecPolyZ == InitPolyZ /\ [][NextPolyZ]_vars

\* the product of the f_i^(e_i) of the first n entries of res, over Z
RECURSIVE ResultProd(_, _)
ResultProd(res, n) ==
  IF n = 0 THEN <<1>>
  ELSE poly_product(ResultProd(res, n - 1), PowZ(res[n][1], res[n][2]))

\* a monic integer polynomial of degree 1 or 2 divides g: candidates by the
\* bound 1 + max |g_i| on the roots of g
HasSmallFactor(g) ==
  \E h \in {<<r, 1>> : r \in (-(1 + MaxAbs({Abs(g[x]) : x \in 1..Len(g)})))
                               ..(1 + MaxAbs({Abs(g[x]) : x \in 1..Len(g)}))}
           \cup {<<c, b, 1>> : <<c, b>> \in
                   ((-Abs(g[1]))..Abs(g[1]))
                   \X ((-2 * (1 + MaxAbs({Abs(g[x]) : x \in 1..Len(g)})))
                        ..(2 * (1 + MaxAbs({Abs(g[x]) : x \in 1..Len(g)}))))} :
     /\ Len(h) < Len(g)
     /\ is_zero(pseudo_div_rem_bigint(g, h)[2])

\* g, monic up to sign and of degree 1 to 5, is irreducible over Z
IrreducibleZ(g) ==
  /\ Len(g) \in 2..6
  /\ Abs(g[Len(g)]) = 1
  /\ ~HasSmallFactor(g)

\* f is not zero and its primitive part is monic
MonicPrimitive(f) == ~is_zero(f) /\ f[Len(f)] = content(f)

\* (content, [(f_i, e_i)]) is the factorisation of f: the f_i irreducible,
\* distinct up to sign, e_i >= 1, and f the product
FactorisationOf(f, val) ==
  /\ val[1] = content(f)
  /\ \A x \in 1..Len(val[2]) :
       /\ IrreducibleZ(val[2][x][1])
       /\ val[2][x][2] >= 1
       /\ \A y \in 1..Len(val[2]) :
            x # y => /\ val[2][x][1] # val[2][y][1]
                     /\ val[2][x][1] # poly_neg(val[2][y][1])
  /\ f = poly_mul(ResultProd(val[2], Len(val[2])), val[1])

(***************************************************************************)
(* C20: for every non-zero f with monic primitive part factorize returns   *)
(* (content, [(f_i, e_i)]) with the f_i the distinct irreducible factors   *)
(* of f over Z, each once and up to sign, and e_i the multiplicity of f_i, *)
(* for every multiplicity and every number of factors; a constant f gives  *)
(* an empty list and f = 0 gives (0, []).                                  *)
(***************************************************************************)
C20_Factorize ==
  (call.fn = "factorize" /\ pc = "done") =>
    /\ MonicPrimitive(call.poly) => ret.status = "ok" /\ FactorisationOf(call.poly, ret.val)
    /\ Len(call.poly) = 1 => ret.status = "ok" /\ ret.val[2] = <<>>
    /\ is_zero(call.poly) => ret = Returned(<<0, <<>>>>)

\* where factorize returns on a polynomial with monic primitive part, the
\* result is its factorisation
C20_WhenReturned ==
  (call.fn = "factorize" /\ pc = "done" /\ MonicPrimitive(call.poly) /\ ret.status = "ok") =>
    FactorisationOf(call.poly, ret.val)

\* factorize returned four factors, or x + 1 with multiplicity 6
C20_Returned ==
  /\ call.fn = "factorize" /\ pc = "done" /\ MonicPrimitive(call.poly)
  /\ ret.status = "ok"
  /\ \/ Len(ret.val[2]) = 4
     \/ Len(ret.val[2]) = 1 /\ ret.val[2][1][2] = 6 /\ ret.val[2][1][1] = <<1, 1>>

(***************************************************************************)
(* src/src/prime_decomp/simple.rs: decompose.  An order is its basis, the  *)
(* ideals are HNFs over it; factorize_mod_p is the one of poly_z above.    *)
(***************************************************************************)

\* trivial_order_monic(theta): the identity matrix
trivial_order_monic(min_poly) ==
  StrictM([r \in 1..deg(min_poly) |-> [c \in 1..deg(min_poly) |-> IF r = c THEN ROne ELSE RZero]])

\* Order::to_z_basis(a): b[k] = a.expr.coef_at(k), then gauss_elim
to_z_basis(basis, expr) ==
  gauss_elim(basis, [kk \in 1..Len(basis) |-> IF kk <= Len(expr) THEN expr[kk] ELSE RZero])

\* Order::to_z_basis_int(a): a panic if a coordinate is not an integer
to_z_basis_int(basis, expr) ==
  Only({IF inv.status # "ok" THEN Panicked
        ELSE IF \E x \in 1..Len(inv.val) : ~RIsInteger(inv.val[x]) THEN Panicked
        ELSE Returned([x \in 1..Len(inv.val) |-> RToInteger(inv.val[x])])
          : inv \in {to_z_basis(basis, expr)}})

\* a mutant of DecompElem: the element is always 0
DecompElem_Zero(min_poly, basis, poly) == Returned([x \in 1..deg(min_poly) |-> 0])

\* let elem = if poly.deg() >= theta.min_poly.deg() { 0 } else
\* { int_basis.to_z_basis_int(with_expr(poly)) }
DecompElem(min_poly, basis, poly) ==
  IF deg(poly) >= deg(min_poly) THEN Returned([x \in 1..deg(min_poly) |-> 0])
  ELSE to_z_basis_int(basis, [x \in 1..Len(poly) |-> RInt(poly[x])])

\* the closure of decompose on one factor: &ancilla + &pz
DecompIdeal(min_poly, basis, table, p, poly) ==
  Only({IF elem.status # "ok" THEN Panicked
        ELSE Returned(ideal_add(ideal_principal(table, elem.val),
                                ideal_principal(table, [x \in 1..deg(min_poly) |->
                                                          IF x = 1 THEN p ELSE 0])))
          : elem \in {DecompElem(min_poly, basis, poly)}})

\* the monic irreducible minimal polynomials of the fields decompose is
\* called in
DecompPolys == {f \in ThetaPolys \cup FieldPolys : f[Len(f)] = 1}

\* the greatest prime decompose is called with
MaxDecompPrime == 13

InitDecomp ==
  /\ input = <<>> /\ a = <<>> /\ u = <<>> /\ k = 0 /\ i = 0
  /\ pc = "start"
  /\ ret = Pending
  /\ \E f \in DecompPolys : \E p \in {q \in 2..MaxDecompPrime : is_prime(q)} :
       \E o \in {find_integral_basis(f)} :
         call = [fn |-> "decompose", min_poly |-> f, basis |-> o,
                 table |-> get_mult_table(o, f), p |-> p]

\* decompose up to the call of factorize_mod_p, which returns its factors in
\* any order
DecStart ==
  /\ pc = "start"
  /\ \E idx \in {index(call.basis, trivial_order_monic(call.min_poly))} :
       IF idx.status # "ok" \/ TruncRem(idx.val, call.p) = 0
       THEN pc' = "done" /\ ret' = Panicked
       ELSE \E fs \in {factorize_mod_p(call.min_poly, call.p)} :
            \E ord \in Orders(Len(fs)) :
              /\ pc' = "map"
              /\ ret' = [status |-> "run", factors |-> Strict([x \in 1..Len(fs) |-> fs[ord[x]]]),
                         result |-> <<>>]
  /\ UNCHANGED <<call, input, a, u, k, i>>

\* .map(|(poly, mul)| ...): the next factor becomes (ideal, mul)
DecMap ==
  /\ pc = "map"
  /\ Len(ret.result) < Len(ret.factors)
  /\ \E fm \in {ret.factors[Len(ret.result) + 1]} :
     \E id \in {DecompIdeal(call.min_poly, call.basis, call.table, call.p, fm[1])} :
       IF id.status # "ok"
       THEN pc' = "done" /\ ret' = Panicked
       ELSE pc' = "map" /\ ret' = [ret EXCEPT !.result = Append(ret.result, <<id.val, fm[2]>>)]
  /\ UNCHANGED <<call, input, a, u, k, i>>

\* .collect()
DecReturn ==
  /\ pc = "map"
  /\ Len(ret.result) = Len(ret.factors)
  /\ pc' = "done"
  /\ ret' = [status |-> "ok", val |-> ret.result, factors |-> ret.factors]
  /\ UNCHANGED <<call, input, a, u, k, i>>

NextDecomp == DecStart \/ DecMap \/ DecReturn

SpecDecomp == InitDecomp /\ [][NextDecomp]_vars

\* the sum of e_i * f_i over the first n factors
RECURSIVE SumEF(_, _)
SumEF(fs, n) == IF n = 0 THEN 0 ELSE SumEF(fs, n - 1) + fs[n][2] * (Len(fs[n][1]) - 1)

(***************************************************************************)
(* C21: for a monic irreducible minimal polynomial of degree n, an         *)
(* integral basis with its table and a prime p that does not divide the    *)
(* index of Z[theta], decompose returns pairs (P_i, e_i) with              *)
(* P_i.norm() = p^(f_i), f_i the degree of the i-th irreducible factor of  *)
(* the minimal polynomial mod p, and the sum of the e_i f_i equal to n.    *)
(***************************************************************************)
C21_Decompose ==
  (call.fn = "decompose" /\ pc = "done"
     /\ TruncRem(index(call.basis, trivial_order_monic(call.min_poly)).val, call.p) # 0) =>
    /\ ret.status = "ok"
    /\ Len(ret.val) = Len(ret.factors)
    /\ \A x \in 1..Len(ret.val) :
         /\ ideal_norm(ret.val[x][1]) = Pow(call.p, Len(ret.factors[x][1]) - 1)
         /\ ret.val[x][2] = ret.factors[x][2]
    /\ SumEF(ret.factors, Len(ret.factors)) = deg(call.min_poly)

\* in a field of degree 3 a prime with a factor of degree 1 and one of
\* degree 2: two prime ideals of norms p and p^2
C21_Witness ==
  /\ call.fn = "decompose" /\ pc = "done" /\ ret.status = "ok"
  /\ Len(call.min_poly) = 4
  /\ Len(ret.val) = 2
  /\ ideal_norm(ret.val[1][1]) = call.p * call.p
  /\ ideal_norm(ret.val[2][1]) = call.p


(***************************************************************************)
(* solve_linear_system (number-theory-linear/src/solve_linear_system.rs):  *)
(* x with x . a = b, by column operations on a that are repeated on b.     *)
(***************************************************************************)

\* Err(e) of a Result
Errored(e) == [status |-> "err", err |-> e]

\* a mutant of SwapB: b is not exchanged with the columns
SwapB_None(b, col, nxt) == b

\* b.swap(col, nxt)
SwapB(b, col, nxt) == [b EXCEPT ![col + 1] = b[nxt + 1], ![nxt + 1] = b[col + 1]]

\* (col..n).find(|&i| a[row][i] != 0): n for None
SolveFind(A, row, col) ==
  LET cand == {c \in col..(Len(A) - 1) : A[row + 1][c + 1] # RZero}
  IN IF cand = {} THEN Len(A) ELSE CHOOSE c \in cand : \A c2 \in cand : c <= c2

\* the body of the loop for one row once nxt is found: the columns col and
\* nxt are exchanged, the column col is divided by a[row][col], and a[row][i]
\* times the column col is subtracted from every other column i
SolveStep(A, b, row, col, nxt) ==
  LET n == Len(A)
      As == [r \in 1..n |-> [A[r] EXCEPT ![col + 1] = A[r][nxt + 1], ![nxt + 1] = A[r][col + 1]]]
      bs == SwapB(b, col, nxt)
      arc == As[row + 1][col + 1]
      Ad == [r \in 1..n |-> [As[r] EXCEPT ![col + 1] = RDiv(As[r][col + 1], arc)]]
      bd == [bs EXCEPT ![col + 1] = RDiv(bs[col + 1], arc)]
  IN [a |-> StrictM([r \in 1..n |->
                       [c \in 1..n |->
                          IF c - 1 = col THEN Ad[r][c]
                          ELSE RSub(Ad[r][c], RMul(Ad[row + 1][c], Ad[r][col + 1]))]]),
      b |-> Strict([c \in 1..n |->
                      IF c - 1 = col THEN bd[c]
                      ELSE RSub(bd[c], RMul(Ad[row + 1][c], bd[col + 1]))])]

\* the greatest absolute value of an integer entry of a and of b
MaxSolveEntry == 2

\* integer matrices of rank 0..2 and of dimension 1 and 2, 0/1 matrices of
\* dimension 3, matrices with halves, and the matrix of the test
SolveInputs ==
  LET E == {RInt(x) : x \in (-1)..MaxSolveEntry}
      B == {RInt(x) : x \in 0..MaxSolveEntry}
      H == {RZero, Rat(1, 2), Rat(-3, 2)}
      Z == {RZero, ROne}
  IN {<<A, b>> : A \in [1..1 -> [1..1 -> E]], b \in [1..1 -> B]}
     \cup {<<A, b>> : A \in [1..2 -> [1..2 -> E]], b \in [1..2 -> B]}
     \cup {<<A, b>> : A \in [1..2 -> [1..2 -> H]], b \in {<<ROne, Rat(1, 3)>>}}
     \cup {<<A, b>> : A \in [1..3 -> [1..3 -> Z]], b \in {<<RInt(1), RInt(2), RInt(3)>>}}
     \cup {<< <<<<RInt(1), RInt(2)>>, <<RInt(3), RInt(4)>>>>, <<RInt(5), RInt(8)>> >>}

InitSolve ==
  /\ input = <<>> /\ i = 0
  /\ pc = "start"
  /\ ret = Pending
  /\ a = <<>> /\ u = <<>> /\ k = 0
  /\ \E ab \in SolveInputs : call = [fn |-> "solve_linear_system", a |-> ab[1], b |-> ab[2]]

\* let n = a.len(); assert_eq!(b.len(), n); let mut col = 0
SolveStart ==
  /\ pc = "start"
  /\ IF Len(call.b) # Len(call.a)
     THEN pc' = "done" /\ ret' = Panicked /\ UNCHANGED <<a, u, k>>
     ELSE pc' = "row" /\ ret' = ret /\ a' = StrictM(call.a) /\ u' = Strict(call.b) /\ k' = 0
  /\ UNCHANGED <<call, input, i>>

\* one iteration of for row in 0..n (col = row throughout)
SolveRow ==
  /\ pc = "row"
  /\ k < Len(a)
  /\ \E nxt \in {SolveFind(a, k, k)} :
       IF nxt = Len(a)
       THEN pc' = "done" /\ ret' = Errored("MatrixNotInvertible") /\ UNCHANGED <<a, u, k>>
       ELSE \E g \in {SolveStep(a, u, k, k, nxt)} :
              pc' = "row" /\ ret' = ret /\ a' = g.a /\ u' = g.b /\ k' = k + 1
  /\ UNCHANGED <<call, input, i>>

\* Ok(b)
SolveReturn ==
  /\ pc = "row"
  /\ k = Len(a)
  /\ pc' = "done"
  /\ ret' = Returned(u)
  /\ UNCHANGED <<call, input, a, u, k, i>>

NextSolve == SolveStart \/ SolveRow \/ SolveReturn

SpecSolve == InitSolve /\ [][NextSolve]_vars

\* the row vector x times the matrix A
RowTimes(x, A) ==
  [c \in 1..Len(A) |-> RSumTo([r \in 1..Len(A) |-> RMul(x[r], A[r][c])], Len(A))]

\* C22: solve_linear_system(A, b) returns Err(MatrixNotInvertible) exactly
\* when the determinant of A is zero, and otherwise Ok(x) with x . A = b
C22_SolveLinearSystem ==
  (pc = "done" /\ call.fn = "solve_linear_system") =>
    /\ ret.status \in {"ok", "err"}
    /\ (ret.status = "err") <=> (determinant(call.a) = RZero)
    /\ ret.status = "err" => ret.err = "MatrixNotInvertible"
    /\ ret.status = "ok" => Strict(RowTimes(ret.val, call.a)) = Strict(call.b)

\* C22 witness: a regular matrix whose first row starts with zero, so that
\* columns were exchanged, and a solution with distinct entries has been
\* returned
C22_Witness ==
  /\ pc = "done" /\ call.fn = "solve_linear_system"
  /\ ret.status = "ok"
  /\ Len(call.a) = 2
  /\ call.a[1][1] = RZero
  /\ ret.val[1] # ret.val[2]
  /\ call.b[1] # call.b[2]


(***************************************************************************)
(* subspace (number-theory-linear/src/subspace.rs): image_mod_p and iim.   *)
(* modpow and modinv of subspace.rs are the modpow and modinv above.       *)
(***************************************************************************)

\* c[k] = d * mmat[j][k] with d = the inverse of mmat[j][j]
IimC(M, j, kk) == RMul(RDiv(ROne, M[j + 1][j + 1]), M[j + 1][kk + 1])

\* (j..m).find(|&i| !mmat[j][i].is_zero()): m for None
IimFind(M, j) ==
  LET m == Len(M[1])
      cand == {c \in j..(m - 1) : M[j + 1][c + 1] # RZero}
  IN IF cand = {} THEN m ELSE CHOOSE c \in cand : \A c2 \in cand : c <= c2

\* the body of for j in 0..n once i is found: the columns i and j are
\* exchanged in mmat and bmat, then c[k] times the column j is subtracted
\* from the column k > j, in the rows l > j of mmat and in every row of bmat
IimStep(M, B, j, ii) ==
  LET m == Len(M[1])
      Ms == [l \in 1..Len(M) |-> [M[l] EXCEPT ![ii + 1] = M[l][j + 1], ![j + 1] = M[l][ii + 1]]]
      Bs == [l \in 1..Len(B) |-> [B[l] EXCEPT ![ii + 1] = B[l][j + 1], ![j + 1] = B[l][ii + 1]]]
  IN [mmat |-> StrictM([l \in 1..Len(M) |->
                  [c \in 1..m |->
                     IF l - 1 > j /\ c - 1 > j
                     THEN RSub(Ms[l][c], RMul(IimC(Ms, j, c - 1), Ms[l][j + 1]))
                     ELSE Ms[l][c]]]),
      bmat |-> StrictM([l \in 1..Len(B) |->
                  [c \in 1..m |->
                     IF c - 1 > j
                     THEN RSub(Bs[l][c], RMul(IimC(Ms, j, c - 1), Bs[l][j + 1]))
                     ELSE Bs[l][c]]])]

\* Step 6 for one row of bmat: x[i] for i = n - 1 down to 0
RECURSIVE IimBack(_, _, _, _)
IimBack(M, brow, ii, x) ==
  IF ii < 0 THEN x
  ELSE LET n == Len(M)
           tmp == RSub(brow[ii + 1],
                       RSumTo([jj \in 1..n |->
                                 IF jj - 1 > ii THEN RMul(M[jj][ii + 1], x[jj]) ELSE RZero], n))
       IN Only({IimBack(M, brow, ii - 1, y)
                  : y \in {Strict([x EXCEPT ![ii + 1] = RDiv(tmp, M[ii + 1][ii + 1])])}})

\* Step 6: xmat
IimSolve(M, B) ==
  StrictM([kk \in 1..Len(B) |-> IimBack(M, B[kk], Len(M) - 1, [jj \in 1..Len(M) |-> RZero])])

\* Step 7: for k in n..m, for i in 0..r: the sum of xmat[i][j] * mmat[j][k]
\* is compared with bmat[i][k]
IimCheck(M, B, X) ==
  \A kk \in Len(M)..(Len(M[1]) - 1) : \A ii \in 1..Len(B) :
    RSumTo([jj \in 1..Len(M) |-> RMul(X[ii][jj], M[jj][kk + 1])], Len(M)) = B[ii][kk + 1]

\* core::mem::replace(&mut mat[s][j], Int::zero()): the value, and the
\* matrix with zero in its place
ImgTake(mat, s, j) ==
  [val |-> mat[s + 1][j + 1], mat |-> Strict([mat EXCEPT ![s + 1] = Strict([Strict(mat[s + 1]) EXCEPT ![j + 1] = 0])])]

\* for s in k + 1..n of line 57: mat[s][j] = replace(mat[s][j], 0) * dd % p
RECURSIVE ImgScale(_, _, _, _, _)
ImgScale(mat, s, j, dd, p) ==
  IF s >= Len(mat) THEN mat
  ELSE Only({ImgScale(Strict([t.mat EXCEPT ![s + 1] =
                        Strict([Strict(t.mat[s + 1]) EXCEPT ![j + 1] = TruncRem(t.val * dd, p)])]),
                      s + 1, j, dd, p)
               : t \in {ImgTake(mat, s, j)}})

\* for s in k + 1..n of line 66: mat[s][i] = (replace(mat[s][j], 0) * dd +
\* replace(mat[s][i], 0)) % p
RECURSIVE ImgRows(_, _, _, _, _, _)
ImgRows(mat, s, j, ii, dd, p) ==
  IF s >= Len(mat) THEN mat
  ELSE Only({Only({ImgRows(Strict([t2.mat EXCEPT ![s + 1] =
                             Strict([Strict(t2.mat[s + 1]) EXCEPT ![ii + 1] =
                                       TruncRem(t1.val * dd + t2.val, p)])]),
                           s + 1, j, ii, dd, p)
                     : t2 \in {ImgTake(t1.mat, s, ii)}})
               : t1 \in {ImgTake(mat, s, j)}})

\* for i in 0..m of line 61
RECURSIVE ImgCols(_, _, _, _, _)
ImgCols(mat, kk, j, ii, p) ==
  IF ii >= Len(mat[1]) THEN mat
  ELSE IF ii = j THEN ImgCols(mat, kk, j, ii + 1, p)
  ELSE Only({ImgCols(ImgRows(t.mat, kk + 1, j, ii, t.val, p), kk, j, ii + 1, p)
               : t \in {ImgTake(mat, kk, ii)}})

\* (0..m).position(|j| !mat[k][j].is_zero() && c[j].is_zero()): m for None
ImgScan(mat, c, kk) ==
  LET m == Len(mat[1])
      cand == {j \in 0..(m - 1) : mat[kk + 1][j + 1] # 0 /\ c[j + 1] = 0}
  IN IF cand = {} THEN m ELSE CHOOSE j \in cand : \A j2 \in cand : j <= j2

\* 3. [Eliminate] for the row k and the column j
ImgEliminate(mat, kk, j, p) ==
  LET dd == p - modinv(mat[kk + 1][j + 1], p)
      m1 == Strict([mat EXCEPT ![kk + 1] = Strict([Strict(mat[kk + 1]) EXCEPT ![j + 1] = p - 1])])
  IN Only({ImgCols(m2, kk, j, 0, p) : m2 \in {ImgScale(m1, kk + 1, j, dd, p)}})

\* the greatest entry of the 0/1.. matrices iim is called with
MaxIimEntry == 1

\* the matrices with n rows, m columns and entries in E
MatricesOver(n, m, E) == [1..n -> [1..m -> E]]

\* iim is called with mmat of 1 or 2 rows and up to 3 columns, vmat of one
\* row (two rows for a mmat of one row), and with the matrices of the tests
IimInputs ==
  LET E == {RInt(x) : x \in 0..MaxIimEntry}
      T == <<<<RInt(1), RInt(0), RInt(1)>>, <<RInt(2), RInt(0), RInt(3)>>>>
  IN UNION {MatricesOver(n, m, E) \X MatricesOver(1, m, E) : n \in 1..2, m \in 1..3}
     \cup (MatricesOver(1, 2, E) \X MatricesOver(2, 2, E))
     \cup {<< <<<<RInt(1), RInt(0)>>, <<RInt(2), RInt(1)>>>>, <<<<RInt(3), RInt(1)>>>> >>,
           << <<<<RInt(1), RInt(0)>>, <<RInt(2), RInt(0)>>>>, <<<<RInt(3), RInt(1)>>>> >>,
           <<T, <<<<RInt(3), RInt(1), RInt(4)>>>> >>,
           <<T, <<<<RInt(1), RInt(0), RInt(1)>>>> >>,
           <<T, <<<<RInt(1), RInt(0), RInt(-1)>>>> >>,
           << <<<<Rat(1, 2), RInt(3)>>>>, <<<<Rat(1, 3), RInt(2)>>>> >>}

\* the greatest prime image_mod_p is called with, but for the tests
MaxImgPrime == 3

\* image_mod_p is called with matrices of up to 3 rows and 3 columns with
\* entries in [0, p), and with the matrices of the tests
ImgInputs ==
  UNION {MatricesOver(n, m, 0..(p - 1)) \X {p}
           : n \in 1..2, m \in 1..3, p \in {q \in 2..MaxImgPrime : is_prime(q)}}
  \cup (MatricesOver(3, 3, 0..1) \X {2})
  \cup {<< <<<<1, 3>>, <<2, 1>>>>, 5>>,
        << <<<<1, 3, 2>>, <<2, 1, 3>>, <<0, 0, 1>>>>, 5>>,
        << <<<<1, 3, 2>>, <<0, 0, 0>>, <<0, 0, 0>>, <<0, 0, 0>>>>, 5>>}

InitSubspace ==
  /\ i = 0 /\ k = 0
  /\ pc = "start"
  /\ ret = Pending
  /\ a = <<>> /\ u = <<>> /\ input = <<>>
  /\ \/ \E mv \in IimInputs : call = [fn |-> "iim", mmat |-> mv[1], vmat |-> mv[2]]
     \/ \E mp \in ImgInputs : call = [fn |-> "image_mod_p", matcp |-> mp[1], p |-> mp[2]]

\* iim: let mut mmat, bmat; assert_eq!(vmat[0].len(), m)
IimStart ==
  /\ pc = "start" /\ call.fn = "iim"
  /\ IF Len(call.vmat[1]) # Len(call.mmat[1])
     THEN pc' = "done" /\ ret' = Panicked /\ UNCHANGED <<a, u, k>>
     ELSE pc' = "iim" /\ ret' = ret /\ a' = StrictM(call.mmat) /\ u' = StrictM(call.vmat) /\ k' = 0
  /\ UNCHANGED <<call, input, i>>

\* iim: one iteration of for j in 0..n
IimColumn ==
  /\ pc = "iim"
  /\ k < Len(a)
  /\ \E ii \in {IimFind(a, k)} :
       IF ii = Len(a[1])
       THEN pc' = "done" /\ ret' = Errored("LinearlyDependent") /\ UNCHANGED <<a, u, k>>
       ELSE \E g \in {IimStep(a, u, k, ii)} :
              pc' = "iim" /\ ret' = ret /\ a' = g.mmat /\ u' = g.bmat /\ k' = k + 1
  /\ UNCHANGED <<call, input, i>>

\* iim: Step 6 and Step 7
IimFinish ==
  /\ pc = "iim"
  /\ k = Len(a)
  /\ pc' = "done"
  /\ \E x \in {IimSolve(a, u)} :
       ret' = IF IimCheck(a, u, x) THEN Returned(x) ELSE Errored("NotInImage")
  /\ UNCHANGED <<call, input, a, u, k, i>>

\* image_mod_p: let mut mat = matcp.to_vec(), r = 0, c = vec![0; m],
\* d = vec![0; n]
ImgStart ==
  /\ pc = "start" /\ call.fn = "image_mod_p"
  /\ pc' = "img"
  /\ a' = StrictM(call.matcp)
  /\ u' = [j \in 1..Len(call.matcp[1]) |-> 0]
  /\ input' = [s \in 1..Len(call.matcp) |-> 0]
  /\ k' = 0 /\ i' = 0
  /\ UNCHANGED <<call, ret>>

\* image_mod_p: one iteration of for k in 0..n (a is mat, u is c, input is
\* d, i is r)
ImgRow ==
  /\ pc = "img"
  /\ k < Len(a)
  /\ \E j \in {ImgScan(a, u, k)} :
       IF j < Len(a[1])
       THEN /\ a' = ImgEliminate(a, k, j, call.p)
            /\ u' = [u EXCEPT ![j + 1] = k + 1]
            /\ input' = [input EXCEPT ![k + 1] = j + 1]
            /\ i' = i
       ELSE /\ input' = [input EXCEPT ![k + 1] = 0]
            /\ i' = i + 1
            /\ UNCHANGED <<a, u>>
  /\ k' = k + 1
  /\ UNCHANGED <<call, ret, pc>>

\* the rows matcp[c[i] - 1] for the columns i with c[i] != 0, in the order
\* of the columns
RECURSIVE ImgOut(_, _, _)
ImgOut(matcp, c, m) ==
  IF m = 0 THEN <<>>
  ELSE ImgOut(matcp, c, m - 1) \o (IF c[m] # 0 THEN <<matcp[c[m]]>> ELSE <<>>)

\* image_mod_p: 5. [Output image]
ImgOutput ==
  /\ pc = "img"
  /\ k = Len(a)
  /\ pc' = "done"
  /\ ret' = IF Cardinality({j \in 1..Len(u) : u[j] # 0}) # Len(a) - i THEN Panicked
            ELSE Returned(ImgOut(call.matcp, u, Len(u)))
  /\ UNCHANGED <<call, input, a, u, k, i>>

NextSubspace == IimStart \/ IimColumn \/ IimFinish \/ ImgStart \/ ImgRow \/ ImgOutput

SpecSubspace == InitSubspace /\ [][NextSubspace]_vars


\* the choices of n of m columns, in increasing order
ColumnChoices(m, n) == {s \in [1..n -> 1..m] : \A x, y \in 1..n : x < y => s[x] < s[y]}

\* the rows of the rational matrix M are linearly independent: some minor
\* of all its rows is not zero
RatRowsIndependent(M) ==
  \E s \in ColumnChoices(Len(M[1]), Len(M)) :
    determinant([r \in 1..Len(M) |-> [c \in 1..Len(M) |-> M[r][s[c]]]]) # RZero

\* v lies in the row space of M, the rows of M being independent
InRowSpace(M, v) == ~RatRowsIndependent(M \o <<v>>)

\* the matrix product X . M of rational matrices
RatTimes(X, M) ==
  [r \in 1..Len(X) |->
     [c \in 1..Len(M[1]) |-> RSumTo([j \in 1..Len(M) |-> RMul(X[r][j], M[j][c])], Len(M))]]

\* C23: iim(M, V) returns Err(LinearlyDependent) exactly when the rows of M
\* are dependent, Ok(X) with X . M = V when they are independent and every
\* row of V lies in the row space of M, and Err(NotInImage) exactly when
\* they are independent and some row of V does not
C23_Iim ==
  (pc = "done" /\ call.fn = "iim") =>
    LET indep == RatRowsIndependent(call.mmat)
        inimage == \A r \in 1..Len(call.vmat) : InRowSpace(call.mmat, call.vmat[r])
    IN /\ (ret = Errored("LinearlyDependent")) <=> ~indep
       /\ (indep /\ inimage) =>
            (ret.status = "ok" /\ StrictM(RatTimes(ret.val, call.mmat)) = StrictM(call.vmat))
       /\ (ret = Errored("NotInImage")) <=> (indep /\ ~inimage)

\* the linear combinations modulo p of the rows of L, of length m
SpanModP(L, m, p) ==
  {[c \in 1..m |-> SumTo([r \in 1..Len(L) |-> x[r] * L[r][c]], Len(L)) % p]
     : x \in [1..Len(L) -> 0..(p - 1)]}

\* C24: image_mod_p(M, p) returns rows of M at distinct places that are
\* linearly independent over F_p and span the row space of M modulo p
C24_ImageModP ==
  (pc = "done" /\ call.fn = "image_mod_p") =>
    /\ ret.status = "ok"
    /\ \E pos \in [1..Len(ret.val) -> 1..Len(call.matcp)] :
         /\ \A x, y \in 1..Len(ret.val) : pos[x] = pos[y] => x = y
         /\ \A x \in 1..Len(ret.val) : ret.val[x] = call.matcp[pos[x]]
    /\ Cardinality(SpanModP(ret.val, Len(call.matcp[1]), call.p)) = Pow(call.p, Len(ret.val))
    /\ SpanModP(ret.val, Len(call.matcp[1]), call.p)
         = SpanModP(call.matcp, Len(call.matcp[1]), call.p)


(***************************************************************************)
(* squarefree (src/poly_mod/factorize.rs) step by step: a is t0, u is      *)
(* <<t, v>>, k is k, i is e and input is result.                           *)
(***************************************************************************)

\* usize::MAX for the conversion p.try_into() of simple.rs, the width of
\* usize cut to 3 bits; the polynomials below have fewer coefficients, as a
\* Vec has fewer than usize::MAX
SqUsizeMax == 7

\* p.try_into().unwrap_or(0) of decompose
SqTryInto(p) == IF p <= SqUsizeMax THEN p ELSE 0

\* the greatest number of pairs in result the runs are followed to
MaxPush == 6

\* the greatest number of coefficients of poly
MaxLenSq == 3

\* squarefree is called with a prime that fits in usize and pusize = p, on
\* polynomials with coefficients in -p..p (multiples of p included), and
\* with a prime that does not fit and pusize 0, as decompose passes, or 1, 3,
\* usize::MAX
SqCalls ==
  UNION {(UNION {{q \in [1..m -> (-p)..p] : q[m] # 0} : m \in 1..MaxLenSq}) \X {p} \X {SqTryInto(p)}
           : p \in {2, 3}}
  \cup ((UNION {{q \in [1..m -> (-1)..2] : q[m] # 0} : m \in 1..(MaxLenSq + 1)})
          \X {11, 13} \X {SqTryInto(11), 1, 3, SqUsizeMax})
  \cup {<<<<>>, 2, 2>>}

InitSq ==
  /\ a = <<>> /\ u = <<>> /\ k = 0 /\ i = 0 /\ input = <<>>
  /\ pc = "start"
  /\ ret = Pending
  /\ \E x \in SqCalls : call = [fn |-> "squarefree_steps", poly |-> x[1], p |-> x[2], pusize |-> x[3]]

\* if poly.is_zero() { panic!() }; e = 1; t0 = poly_mod(poly, p); result = []
SqStart ==
  /\ pc = "start"
  /\ IF is_zero(call.poly)
     THEN pc' = "done" /\ ret' = Panicked /\ UNCHANGED <<a, i, input>>
     ELSE pc' = "outer" /\ ret' = ret /\ a' = poly_mod(call.poly, call.p) /\ i' = 1 /\ input' = <<>>
  /\ UNCHANGED <<call, u, k>>

\* 'outer: while t0.deg() != 0 { der, t, v, k = 0 ... }, and the return of
\* result
SqOuter ==
  /\ pc = "outer"
  /\ IF deg(a) # 0
     THEN \E t \in {poly_gcd(a, prim_differential(a, call.p), call.p)} :
            /\ u' = <<t, poly_divrem(a, t, call.p)[1]>>
            /\ k' = 0
            /\ pc' = "inner"
            /\ ret' = ret
     ELSE pc' = "done" /\ ret' = Returned(input) /\ UNCHANGED <<u, k>>
  /\ UNCHANGED <<call, a, i, input>>

\* one iteration of the inner loop: with v constant, t.deg() / pusize (a
\* panic for pusize = 0), t0 = every pusize-th coefficient of t, e *= pusize,
\* continue 'outer; otherwise k += 1, w, aek, v = w, t = t / v and the push
\* of (aek, e * k) where aek.deg() != 0
SqInner ==
  /\ pc = "inner"
  /\ Len(input) < MaxPush
  /\ IF deg(u[2]) = 0
     THEN IF call.pusize = 0
          THEN pc' = "done" /\ ret' = Panicked /\ UNCHANGED <<a, u, k, i, input>>
          ELSE /\ a' = EveryPth(u[1], call.pusize)
               /\ i' = i * call.pusize
               /\ pc' = "outer"
               /\ UNCHANGED <<ret, u, k, input>>
     ELSE \E w \in {poly_gcd(u[1], u[2], call.p)} :
          \E aek \in {poly_divrem(u[2], w, call.p)[1]} :
            /\ k' = k + 1
            /\ u' = <<poly_divrem(u[1], w, call.p)[1], w>>
            /\ input' = IF deg(aek) # 0 THEN Append(input, <<aek, SqExponent(i, k + 1)>>)
                        ELSE input
            /\ UNCHANGED <<ret, pc, a, i>>
  /\ UNCHANGED call

NextSq == SqStart \/ SqOuter \/ SqInner

SpecSq == InitSq /\ [][NextSq]_vars

\* the loops run whenever they can
SpecSqFair == SpecSq /\ WF_vars(NextSq)

\* p does not fit in usize
SqLargeP == call.fn = "squarefree_steps" /\ call.p > SqUsizeMax

\* C25: when p does not fit in usize, squarefree(poly, p, pusize) returns,
\* for every pusize, 0 included, the decomposition it returns for pusize = 1
C25_PusizeIgnored ==
  (pc = "done" /\ SqLargeP /\ ~is_zero(call.poly)) =>
    ret = squarefree(call.poly, call.p, 1)

SqZeroLoop ==
  [][(pc = "inner" /\ u = <<<<>>, <<>>>>)
       => (pc' = "inner" /\ u' = u /\ k' = k + 1 /\ Len(input') = Len(input) + 1)]_vars

\* a polynomial that is not zero and is zero modulo p reaches the inner loop
\* with t = v = 0
SqZeroReached ==
  (pc = "inner" /\ ~is_zero(call.poly) /\ is_zero(poly_mod(call.poly, call.p)))
    => u = <<<<>>, <<>>>>


(***************************************************************************)
(* degree (src/poly_mod/factorize.rs): distinct-degree factorisation of a  *)
(* polynomial that is square-free modulo p.  a is v, u is w, k is d and    *)
(* input is result.                                                        *)
(***************************************************************************)

\* a mutant of DegGuard: the loop stops one degree early
DegGuard_Strict(d, v) == 2 * d + 2 < deg(v)

\* while 2 * d + 2 <= v.deg()
DegGuard(d, v) == 2 * d + 2 <= deg(v)

\* the greatest number of coefficients of the polynomials degree is called
\* with modulo 2, 3 and 5
MaxLenDeg2 == 6

MaxLenDeg3 == 4

MaxLenDeg5 == 3

\* the polynomials with coefficients in [0, p), of degree 1 and more, that
\* are square-free modulo p; degree is called with these and with
\* polynomials of degree 4 and 5 modulo 3, two of the tests among them
DegInputs(p, n) ==
  {f \in UNION {PolysModLen(m, p) : m \in 2..n} : SquareFreeMod(f, p)}

InitDegree ==
  /\ a = <<>> /\ u = <<>> /\ k = 0 /\ i = 0 /\ input = <<>>
  /\ pc = "start"
  /\ ret = Pending
  /\ \/ \E pn \in {<<2, MaxLenDeg2>>, <<3, MaxLenDeg3>>, <<5, MaxLenDeg5>>} :
        \E f \in DegInputs(pn[1], pn[2]) :
          call = [fn |-> "degree", poly |-> f, p |-> pn[1]]
     \/ \E f \in {g \in {<<2, 0, 0, 0, 1>>, <<1, 1, 0, 0, 1, 1>>, <<2, 1, 0, 1, 1>>,
                         <<0, 2, 1, 0, 1, 1>>} : SquareFreeMod(g, 3)} :
          call = [fn |-> "degree", poly |-> f, p |-> 3]

\* x = from_raw([0, 1]); v = poly.clone(); w = x.clone(); d = 0; result = []
DegStart ==
  /\ pc = "start"
  /\ pc' = "while"
  /\ a' = call.poly
  /\ u' = from_raw(<<0, 1>>)
  /\ k' = 0
  /\ input' = <<>>
  /\ UNCHANGED <<call, ret, i>>

\* one iteration of while 2 * d + 2 <= v.deg()
DegStep ==
  /\ pc = "while"
  /\ DegGuard(k, a)
  /\ k' = k + 1
  /\ \E w \in {poly_modpow(u, call.p, a, call.p)} :
     \E ad \in {poly_gcd(poly_mod_sub(w, from_raw(<<0, 1>>), call.p), a, call.p)} :
       IF deg(ad) > 0
       THEN \E v \in {poly_divrem(a, ad, call.p)[1]} :
              /\ input' = Append(input, <<ad, k + 1>>)
              /\ a' = v
              /\ u' = poly_divrem(w, v, call.p)[2]
       ELSE /\ u' = w
            /\ UNCHANGED <<a, input>>
  /\ UNCHANGED <<call, ret, pc, i>>

\* if v.deg() > 0 { result.push((v.clone(), v.deg())) }; result
DegReturn ==
  /\ pc = "while"
  /\ ~DegGuard(k, a)
  /\ pc' = "done"
  /\ ret' = Returned(IF deg(a) > 0 THEN Append(input, <<a, deg(a)>>) ELSE input)
  /\ UNCHANGED <<call, input, a, u, k, i>>

NextDegree == DegStart \/ DegStep \/ DegReturn

SpecDegree == InitDegree /\ [][NextDegree]_vars

\* the monic irreducible polynomials of degree dd modulo p: the monic
\* polynomials that are not a product of two monic polynomials of smaller
\* degree
IrreducibleMod(dd, p) ==
  MonicMod(dd, p)
    \ UNION {{RefMulMod(g, h, p) : g \in MonicMod(d1, p), h \in MonicMod(dd - d1, p)}
               : d1 \in 1..(dd \div 2)}

\* the product modulo p of the polynomials of a set
RECURSIVE ProdOfSet(_, _)
ProdOfSet(S, p) ==
  IF S = {} THEN <<1>>
  ELSE LET g == CHOOSE g \in S : TRUE IN RefMulMod(g, ProdOfSet(S \ {g}, p), p)

\* the product modulo p of the monic irreducible polynomials of degree dd
\* that divide f
FactorsOfDegree(f, dd, p) ==
  ProdOfSet({h \in IrreducibleMod(dd, p) : DividesMod(h, f, p)}, p)

\* g divided by its leading coefficient modulo p
MonicOf(g, p) == poly_mod(poly_mul(g, modinv(g[Len(g)], p)), p)

\* the product modulo p of the first n polynomials of a list of pairs
RECURSIVE DegProd(_, _, _)
DegProd(res, n, p) ==
  IF n = 0 THEN <<1>> ELSE RefMulMod(DegProd(res, n - 1, p), res[n][1], p)

\* C28: degree(v0, p) returns pairs (A_d, d) with d strictly increasing, no
\* A_d constant, each A_d a unit times the product of all irreducible
\* factors of v0 of degree d, the product of the A_d a non-zero constant
\* times v0, and the factor left when the loop stops irreducible or constant
C28_Degree ==
  (pc = "done" /\ call.fn = "degree") =>
    /\ ret.status = "ok"
    /\ \A x \in 1..(Len(ret.val) - 1) : ret.val[x][2] < ret.val[x + 1][2]
    /\ \A x \in 1..Len(ret.val) :
         /\ deg(ret.val[x][1]) > 0 /\ ~is_zero(ret.val[x][1])
         /\ MonicOf(ret.val[x][1], call.p) = FactorsOfDegree(call.poly, ret.val[x][2], call.p)
    /\ \E c \in 1..(call.p - 1) :
         DegProd(ret.val, Len(ret.val), call.p) = poly_mod(poly_mul(call.poly, c), call.p)
    /\ deg(a) > 0 => MonicOf(a, call.p) \in IrreducibleMod(deg(a), call.p)

\* C28 witness: a polynomial with factors of two degrees, two of them of
\* the same degree, and an irreducible factor left by the loop
C28_Witness ==
  /\ pc = "done" /\ call.fn = "degree"
  /\ Len(ret.val) = 2
  /\ deg(ret.val[1][1]) = 2 * ret.val[1][2]
  /\ deg(a) > 0


(***************************************************************************)
(* The operations of polynomial.rs and of poly_mod/prim.rs that build a    *)
(* Polynomial, each called once on operands without trailing zeros.        *)
(***************************************************************************)

\* the naive division of div_rem_bigrational, for i in (0..a_deg - b_deg + 1).rev()
RECURSIVE RationalDivision(_, _, _, _)
RationalDivision(tmp, quo, b, ii) ==
  IF ii < 0 THEN <<quo, tmp>>
  ELSE Only({RationalDivision(
               Strict([x \in 1..Len(tmp) |->
                         IF ii <= x - 1 /\ x - 1 <= ii + Len(b) - 1
                         THEN RSub(tmp[x], RMul(coef, b[x - ii])) ELSE tmp[x]]),
               Strict([quo EXCEPT ![ii + 1] = coef]), b, ii - 1)
               : coef \in {RDiv(tmp[ii + Len(b)], b[Len(b)])}})

\* div_rem_bigrational(a, b) = <<quotient, remainder>>
div_rem_bigrational(pa, pb) ==
  IF Len(pa) = 0 \/ Len(pb) = 0 \/ Len(pa) < Len(pb)
  THEN <<from_raw_rational(<<RZero>>), pa>>
  ELSE Only({<<from_raw_rational(qr[1]), from_raw_rational(qr[2])>>
               : qr \in {RationalDivision(Strict(pa), Strict([x \in 1..(Len(pa) - Len(pb) + 1) |-> RZero]),
                                          pb, Len(pa) - Len(pb))}})

\* the greatest number of coefficients and the greatest coefficient of the
\* operands of the operations with two operands; the operations with one
\* operand take one coefficient more, and coefficients greater by 2
MaxLenOps == 2

MaxCoefOps == 1

\* the integer polynomials with at most len coefficients in -c..c, zero
\* included
OpsPolys(len, c) == UNION {PolysOfLen(m, c) : m \in 0..len}

\* the rational polynomials div_rem_bigrational is called with
OpsRationals(len) ==
  UNION {{f \in [1..m -> {RZero, ROne, Rat(-1, 2), RInt(2)}] : m = 0 \/ f[m] # RZero}
           : m \in 0..len}

\* the polynomials with coefficients in [0, m) and at most len coefficients
OpsModPolys(len, m) == UNION {PolysModLen(n, m) : n \in 0..len}

\* call of the operation op on f, g polynomials and m an integer (a
\* modulus, a multiplier, a divisor, a constant)
OpsCall(op, f, g, m) == call = [fn |-> op, f |-> f, g |-> g, m |-> m]

InitOps ==
  /\ HnfIdle
  /\ ret = Pending
  /\ \/ \E raw \in UNION {[1..m -> (-MaxCoefOps)..MaxCoefOps] : m \in 0..(MaxLenOps + 1)} :
          OpsCall("from_raw", raw, <<>>, 0)
     \/ \E v \in (-MaxCoefOps)..MaxCoefOps : OpsCall("from_mono", <<>>, <<>>, v)
     \/ \E op \in {"add", "sub", "mul", "pseudo_div_rem_bigint"} :
        \E f \in OpsPolys(MaxLenOps, MaxCoefOps) : \E g \in OpsPolys(MaxLenOps, MaxCoefOps) :
          OpsCall(op, f, g, 0)
     \/ \E op \in {"neg", "differential"} : \E f \in OpsPolys(MaxLenOps + 1, MaxCoefOps + 2) :
          OpsCall(op, f, <<>>, 0)
     \/ \E f \in OpsRationals(MaxLenOps + 1) : \E g \in OpsRationals(MaxLenOps) :
          OpsCall("div_rem_bigrational", f, g, 0)
     \/ \E op \in {"poly_mod", "poly_div"} : \E f \in OpsPolys(MaxLenOps + 1, MaxCoefOps + 2) :
        \E m \in {2, 3} : OpsCall(op, f, <<>>, m)
     \/ \E f \in OpsPolys(MaxLenOps + 1, MaxCoefOps + 2) : \E m \in (-1)..2 :
          OpsCall("poly_mul", f, <<>>, m)
     \/ \E op \in {"poly_divrem", "poly_gcd"} : \E m \in {2, 3} :
        \E f \in OpsModPolys(MaxLenOps + 1, m) : \E g \in OpsModPolys(MaxLenOps, m) :
          OpsCall(op, f, g, m)

\* from_raw and from_mono
OpsConstruct ==
  /\ ret = Pending
  /\ call.fn \in {"from_raw", "from_mono"}
  /\ ret' = Returned(<<IF call.fn = "from_raw" THEN from_raw(call.f) ELSE from_mono(call.m)>>)
  /\ UNCHANGED <<call, input, a, u, k, i, pc>>

\* &a + &b, &a - &b, -a, &a * &b and differential
OpsArith ==
  /\ ret = Pending
  /\ call.fn \in {"add", "sub", "neg", "mul", "differential"}
  /\ ret' = Returned(<<CASE call.fn = "add" -> poly_add(call.f, call.g)
                         [] call.fn = "sub" -> poly_sub(call.f, call.g)
                         [] call.fn = "neg" -> poly_neg(call.f)
                         [] call.fn = "mul" -> poly_product(call.f, call.g)
                         [] call.fn = "differential" -> differential(call.f)>>)
  /\ UNCHANGED <<call, input, a, u, k, i, pc>>

\* pseudo_div_rem_bigint and div_rem_bigrational: the quotient and the
\* remainder
OpsDivide ==
  /\ ret = Pending
  /\ call.fn \in {"pseudo_div_rem_bigint", "div_rem_bigrational"}
  /\ ret' = Returned(IF call.fn = "pseudo_div_rem_bigint"
                     THEN pseudo_div_rem_bigint(call.f, call.g)
                     ELSE div_rem_bigrational(call.f, call.g))
  /\ UNCHANGED <<call, input, a, u, k, i, pc>>

\* poly_mod, poly_mul, poly_div, poly_divrem and poly_gcd of prim.rs
OpsModP ==
  /\ ret = Pending
  /\ call.fn \in {"poly_mod", "poly_mul", "poly_div", "poly_divrem", "poly_gcd"}
  /\ ret' = Returned(CASE call.fn = "poly_mod" -> <<poly_mod(call.f, call.m)>>
                       [] call.fn = "poly_mul" -> <<poly_mul(call.f, call.m)>>
                       [] call.fn = "poly_div" -> <<poly_div(call.f, call.m)>>
                       [] call.fn = "poly_divrem" -> poly_divrem(call.f, call.g, call.m)
                       [] call.fn = "poly_gcd" -> <<poly_gcd(call.f, call.g, call.m)>>)
  /\ UNCHANGED <<call, input, a, u, k, i, pc>>

NextOps == OpsConstruct \/ OpsArith \/ OpsDivide \/ OpsModP

SpecOps == InitOps /\ [][NextOps]_vars

OpsFns ==
  {"from_raw", "from_mono", "add", "sub", "neg", "mul", "differential", "pseudo_div_rem_bigint",
   "div_rem_bigrational", "poly_mod", "poly_mul", "poly_div", "poly_divrem", "poly_gcd"}

\* the coefficient of x^n of the polynomial that f + g, f - g, f * g,
\* f mod m and from_raw(f) stand for
OpsCoef(c, n) ==
  CASE c.fn = "add" -> coef_at(c.f, n) + coef_at(c.g, n)
    [] c.fn = "sub" -> coef_at(c.f, n) - coef_at(c.g, n)
    [] c.fn = "mul" -> MulCoef(c.f, c.g, n)
    [] c.fn = "poly_mod" -> coef_at(c.f, n) % c.m
    [] c.fn = "from_raw" -> coef_at(c.f, n)

\* C26: every polynomial the operations produce is empty or ends with a
\* coefficient that is not zero; is_zero() holds exactly when every
\* coefficient of the polynomial it stands for is zero, and deg() is the
\* greatest exponent with a non-zero coefficient, usize::MAX for zero alone
C26_Normalised ==
  (call.fn \in OpsFns /\ ret.status = "ok") =>
    /\ \A x \in 1..Len(ret.val) :
         \/ Len(ret.val[x]) = 0
         \/ ret.val[x][Len(ret.val[x])] # (IF call.fn = "div_rem_bigrational" THEN RZero ELSE 0)
    /\ call.fn \in {"add", "sub", "mul", "poly_mod", "from_raw"} =>
         LET r == ret.val[1]
             n == Len(call.f) + Len(call.g)
         IN /\ is_zero(r) <=> \A e \in 0..n : OpsCoef(call, e) = 0
            /\ (deg(r) = UsizeMax) <=> \A e \in 0..n : OpsCoef(call, e) = 0
            /\ ~is_zero(r) =>
                 /\ OpsCoef(call, deg(r)) # 0
                 /\ \A e \in (deg(r) + 1)..n : OpsCoef(call, e) = 0

\* C26 witness: a difference and a reduction modulo m whose leading
\* coefficients cancel without the result being zero
C26_Witness ==
  /\ ret.status = "ok"
  /\ call.fn \in {"sub", "poly_mod"}
  /\ Len(call.f) >= 2
  /\ Len(ret.val[1]) = 1


(***************************************************************************)
(* Algebraic (src/algebraic.rs): the constructors and +, -, *, pow.  a is  *)
(* the expr of the value in hand, input the last operation, k the number   *)
(* of operations applied to it.                                            *)
(***************************************************************************)

\* expr + other.expr and expr - other.expr for Polynomial<BigRational>
RatPolyAdd(f, g) ==
  IF Len(f) = 0 THEN g
  ELSE IF Len(g) = 0 THEN f
  ELSE from_raw_rational([x \in 1..(IF Len(f) > Len(g) THEN Len(f) ELSE Len(g)) |->
         RAdd(IF x <= Len(f) THEN f[x] ELSE RZero, IF x <= Len(g) THEN g[x] ELSE RZero)])

RatPolySub(f, g) ==
  IF Len(f) = 0 THEN [x \in 1..Len(g) |-> RSub(RZero, g[x])]
  ELSE IF Len(g) = 0 THEN f
  ELSE from_raw_rational([x \in 1..(IF Len(f) > Len(g) THEN Len(f) ELSE Len(g)) |->
         RSub(IF x <= Len(f) THEN f[x] ELSE RZero, IF x <= Len(g) THEN g[x] ELSE RZero)])

\* Mul for &Algebraic: mul_with_mod with its assert!(a_deg < n) and
\* assert!(b_deg < n)
AlgMul(x, y, min_poly) ==
  IF Len(x) = 0 \/ Len(y) = 0 THEN Returned(<<>>)
  ELSE IF ~(deg(x) < deg(min_poly)) \/ ~(deg(y) < deg(min_poly)) THEN Panicked
  ELSE Returned(mul_with_mod(x, y, min_poly))

\* Pow<u64> for &Algebraic: while e > 0, s = [cur, prod]
RECURSIVE AlgPowLoop(_, _, _)
AlgPowLoop(s, e, min_poly) ==
  IF e > 0
  THEN Only({IF prod.status # "ok" THEN Panicked
             ELSE Only({IF cur.status # "ok" THEN Panicked
                        ELSE AlgPowLoop([cur |-> cur.val, prod |-> prod.val], e \div 2, min_poly)
                          : cur \in {AlgMul(s.cur, s.cur, min_poly)}})
               : prod \in {IF e % 2 = 1 THEN AlgMul(s.prod, s.cur, min_poly) ELSE Returned(s.prod)}})
  ELSE Returned(s.prod)

AlgPow(x, e, min_poly) == AlgPowLoop([cur |-> x, prod |-> from_raw_rational(<<RInt(1)>>)], e, min_poly)

\* the minimal polynomials: degree 1, 2 and 3 (the last one is that of the
\* test)
AlgMinPolys == {<<-2, 1>>, <<1, 2>>, <<1, 0, 1>>, <<-2, 0, 1>>, <<1, 1, 1>>, <<1, 1, 0, 1>>}

\* the rationals the constructors are called with
AlgRationals == {RZero, ROne, Rat(1, 2), RInt(-1)}

\* the expr with_expr is called with: zero or of degree below n
AlgExprs(n) ==
  UNION {{f \in [1..m -> {RZero, ROne, Rat(-1, 2)}] : m = 0 \/ f[m] # RZero} : m \in 0..n}

\* the greatest number of operations applied to a value and the greatest
\* exponent of pow
MaxAlgOps == 2

MaxAlgExp == 3

\* the greatest numerator and denominator of the values that are operated on
MaxAlgSize == 4

AlgSmall(x) ==
  \A j \in 1..Len(x) : x[j][1] <= MaxAlgSize /\ -x[j][1] <= MaxAlgSize /\ x[j][2] <= MaxAlgSize

\* a value built by a constructor: Algebraic::new, new_const, from_int and
\* with_expr; with_expr checks debug_assert!(expr.deg() < minimal_poly.deg())
\* in a debug build only
AlgBuilt(min_poly, build) ==
  {[by |-> "new", r |-> Returned(from_raw_rational(<<RInt(0), RInt(1)>>))]}
  \cup {[by |-> "new_const", r |-> Returned(from_raw_rational(<<x>>))] : x \in AlgRationals}
  \cup {[by |-> "from_int", r |-> Returned(from_raw_rational(<<RInt(x)>>))] : x \in {0, 2}}
  \cup {[by |-> "with_expr",
         r |-> IF build = "debug" /\ ~(deg(e) < deg(min_poly)) THEN Panicked ELSE Returned(e)]
          : e \in AlgExprs(deg(min_poly))}

InitAlg ==
  /\ a = <<>> /\ u = <<>> /\ k = 0 /\ i = 0 /\ input = ""
  /\ pc = "start"
  /\ ret = Pending
  /\ \E f \in AlgMinPolys : \E b \in {"debug", "release"} :
       call = [fn |-> "algebraic", min_poly |-> f, build |-> b]

\* a constructor is called
AlgConstruct ==
  /\ pc = "start" /\ call.fn = "algebraic"
  /\ \E v \in AlgBuilt(call.min_poly, call.build) :
       /\ input' = v.by
       /\ IF v.r.status = "ok"
          THEN pc' = "value" /\ a' = v.r.val /\ ret' = ret
          ELSE pc' = "done" /\ a' = a /\ ret' = Panicked
  /\ UNCHANGED <<call, u, k, i>>

\* the value in hand plus or minus a value built by a constructor
AlgAddSub ==
  /\ pc = "value" /\ k < MaxAlgOps /\ AlgSmall(a)
  /\ \E v \in {w \in AlgBuilt(call.min_poly, call.build) : w.r.status = "ok"} :
     \E op \in {"add", "sub"} :
       /\ input' = op
       /\ a' = IF op = "add" THEN RatPolyAdd(a, v.r.val) ELSE RatPolySub(a, v.r.val)
  /\ k' = k + 1
  /\ UNCHANGED <<call, u, i, pc, ret>>

\* the value in hand times a value built by a constructor
AlgTimes ==
  /\ pc = "value" /\ k < MaxAlgOps /\ AlgSmall(a)
  /\ \E v \in {w \in AlgBuilt(call.min_poly, call.build) : w.r.status = "ok"} :
     \E r \in {AlgMul(a, v.r.val, call.min_poly)} :
       IF r.status = "ok"
       THEN pc' = "value" /\ a' = r.val /\ ret' = ret
       ELSE pc' = "done" /\ a' = a /\ ret' = Panicked
  /\ input' = "mul"
  /\ k' = k + 1
  /\ UNCHANGED <<call, u, i>>

\* the value in hand to the power e
AlgPower ==
  /\ pc = "value" /\ k < MaxAlgOps /\ AlgSmall(a)
  /\ \E e \in 0..MaxAlgExp : \E r \in {AlgPow(a, e, call.min_poly)} :
       IF r.status = "ok"
       THEN pc' = "value" /\ a' = r.val /\ ret' = ret
       ELSE pc' = "done" /\ a' = a /\ ret' = Panicked
  /\ input' = "pow"
  /\ k' = k + 1
  /\ UNCHANGED <<call, u, i>>

NextAlg == AlgConstruct \/ AlgAddSub \/ AlgTimes \/ AlgPower

SpecAlg == InitAlg /\ [][NextAlg]_vars

\* C27: every value built by a constructor and every result of +, -, * and
\* pow has expr = 0 or deg(expr) < n, for every n >= 1, and with_expr
\* accepts every expr that is zero or of degree below n
C27_AlgebraicReduced ==
  call.fn = "algebraic" =>
    /\ pc = "value" => (Len(a) = 0 \/ deg(a) < deg(call.min_poly))
    /\ ~(ret = Panicked /\ input = "with_expr")

====
